---- MODULE Spec2Model ----
(***************************************************************************)
(* A model of the kofnote debate engine (kofnote-app/src-tauri/src):       *)
(* the run_debate_mode facade with its process-wide DebateLock, and        *)
(* run_debate_mode_internal with request normalization, the guarded state  *)
(* machine, the 3 x 5 turn loop, consensus arithmetic, packet validation   *)
(* and the ordered artifact writes.                                        *)
(*                                                                         *)
(* Option<T> values are sequences of length <= 1: <<>> is None, <<x>> is   *)
(* Some(x).  Scores (f64 in [0,1] with three decimals) are integers in     *)
(* thousandths.                                                            *)
(***************************************************************************)
EXTENDS Integers, Sequences, FiniteSets, TLC, Bags

(* ---------------------------------------------------------------------- *)
(* Bounds of the model                                                     *)
(* ---------------------------------------------------------------------- *)

\* Concurrent run_debate_mode invocations in SpecLock.
MaxInvocations == 2

\* Longest participants list drawn from ParticipantInputs.
MaxParticipants == 2

\* Readings of the wall clock (generate_debate_run_id) in SpecLock.
MaxClock == 2

\* Most structured record files a command may leave under records/.
MaxRecords == 1

\* Most upsert_record calls without a previous path of SpecCreate that
\* return Ok.
MaxCreated == 2

\* Most records of the stores that search_records is run on.
MaxStored == 2

\* Most json_paths of a batch sync and most pages of a batch pull.
MaxBatch == 2

(* ---------------------------------------------------------------------- *)
(* Option helpers                                                          *)
(* ---------------------------------------------------------------------- *)

None == <<>>

Some(x) == <<x>>

UnwrapOr(opt, default) == IF opt = <<>> THEN default ELSE opt[1]

(* ---------------------------------------------------------------------- *)
(* Strings: str::trim and str::to_lowercase on the strings of the model    *)
(* ---------------------------------------------------------------------- *)

\* value.trim()
Trim(s) ==
    CASE s = " critic " -> "critic"
      [] s = "  "       -> ""
      [] s = " "        -> ""
      [] s = " gpt-4.1 " -> "gpt-4.1"
      [] s = " Decision " -> "Decision"
      [] s = " Notion " -> "Notion"
      [] s = " My-CLI " -> "My-CLI"
      [] s = " WEB "    -> "WEB"
      [] s = " Debate " -> "Debate"
      [] s = " o3 "     -> "o3"
      [] OTHER          -> s

\* value.to_lowercase()
ToLowercase(s) ==
    CASE s = "Proponent"   -> "proponent"
      [] s = "Critic"      -> "critic"
      [] s = "Analyst"     -> "analyst"
      [] s = "Synthesizer" -> "synthesizer"
      [] s = "Judge"       -> "judge"
      [] s = "JUDGE"       -> "judge"
      [] s = "Moderator"   -> "moderator"
      [] s = "Codex"       -> "codex"
      [] s = "OpenAI"      -> "openai"
      [] s = "Decision"    -> "decision"
      [] s = "Notion"      -> "notion"
      [] s = "My-CLI"      -> "my-cli"
      [] s = "WEB"         -> "web"
      [] s = "Debate"      -> "debate"
      [] s = "PLANNING"    -> "planning"
      [] s = "Essay"       -> "essay"
      [] s = "Auto"        -> "auto"
      [] s = "O3"          -> "o3"
      [] OTHER             -> s

TrimLower(s) == ToLowercase(Trim(s))

(* ---------------------------------------------------------------------- *)
(* Enumerations                                                            *)
(* ---------------------------------------------------------------------- *)

\* Mutant: the role list starts with the Judge.
DebateRoleAll_JudgeFirst ==
    <<"Judge", "Proponent", "Critic", "Analyst", "Synthesizer">>

\* DebateRole::all()
DebateRoleAll == <<"Proponent", "Critic", "Analyst", "Synthesizer", "Judge">>

\* DebateRound::all(), by DebateRound::as_str
DebateRoundAll == <<"round-1", "round-2", "round-3">>

\* DebateState, by DebateState::as_str
DebateStates ==
    {"Intake", "Round1", "Round2", "Round3", "Consensus", "Judge",
     "Packetize", "Writeback"}

\* The DebateState a round enters (the match in run_debate_mode_internal).
RoundState(r) ==
    CASE r = 1 -> "Round1"
      [] r = 2 -> "Round2"
      [] r = 3 -> "Round3"

SeqToSet(s) == {s[i] : i \in 1..Len(s)}

\* dedup_non_empty: first occurrence of every non-empty item, in order.
RECURSIVE DedupFrom(_, _, _)
DedupFrom(items, i, out) ==
    IF i > Len(items) THEN out
    ELSE LET clean == Trim(items[i]) IN
         IF clean = "" \/ clean \in SeqToSet(out)
         THEN DedupFrom(items, i + 1, out)
         ELSE DedupFrom(items, i + 1, Append(out, clean))

dedup_non_empty(items) == DedupFrom(items, 1, <<>>)

(* ---------------------------------------------------------------------- *)
(* Provider registry (DebateProviderRegistry)                              *)
(* ---------------------------------------------------------------------- *)

\* default_debate_provider_configs, as DebateProviderRegistry::from_settings
\* keys it: id -> Some([provider_type, enabled]).
DefaultProviderIds ==
    {"codex-cli", "gemini-cli", "claude-cli", "chatgpt-web", "gemini-web",
     "claude-web"}

\* A user-registered provider id that no transport handles.
CustomProviderId == "my-cli"

ProviderIds == DefaultProviderIds \cup {CustomProviderId}

DefaultRegistry ==
    [id \in ProviderIds |->
        IF id \in {"codex-cli", "gemini-cli", "claude-cli"}
        THEN Some([provider_type |-> "cli", enabled |-> TRUE])
        ELSE IF id \in {"chatgpt-web", "gemini-web", "claude-web"}
        THEN Some([provider_type |-> "web", enabled |-> TRUE])
        ELSE None]

\* Settings in which the user disabled gemini-web and registered my-cli.
CustomRegistry ==
    [DefaultRegistry EXCEPT
        !["gemini-web"] = Some([provider_type |-> "web", enabled |-> FALSE]),
        ![CustomProviderId] = Some([provider_type |-> "cli", enabled |-> TRUE])]

Registries == {DefaultRegistry, CustomRegistry}

\* DebateProviderRegistry::get
RegistryGet(registry, provider_id) ==
    LET id == TrimLower(provider_id) IN
    IF id \in DOMAIN registry THEN registry[id] ELSE None

\* DebateProviderRegistry::is_enabled
RegistryIsEnabled(registry, provider_id) ==
    LET item == RegistryGet(registry, provider_id) IN
    IF item = None THEN FALSE ELSE item[1].enabled

(* ---------------------------------------------------------------------- *)
(* Request normalization                                                   *)
(* ---------------------------------------------------------------------- *)

BuiltinProviders == {"openai", "gemini", "claude", "local"}

OutputTypes == {"decision", "writing", "architecture", "planning", "evaluation"}

\* debate_error(code, message): only the code is kept.
debate_error(code) == [ok |-> FALSE, code |-> code]

\* Mutant: the output type is compared without lowering its case.
normalize_debate_output_type_CaseSensitive(value) ==
    IF Trim(value) \in OutputTypes
    THEN [ok |-> TRUE, value |-> Trim(value)]
    ELSE debate_error("DEBATE_ERR_INPUT")

\* normalize_debate_output_type
normalize_debate_output_type(value) ==
    LET normalized == TrimLower(value) IN
    IF normalized \in OutputTypes
    THEN [ok |-> TRUE, value |-> normalized]
    ELSE debate_error("DEBATE_ERR_INPUT")

\* normalize_provider_alias
normalize_provider_alias(value) ==
    LET v == TrimLower(value) IN
    CASE v = "codex"   -> "codex-cli"
      [] v = "chatgpt" -> "chatgpt-web"
      [] OTHER         -> v

\* resolve_provider_type
resolve_provider_type(provider_id, registry) ==
    IF provider_id \in BuiltinProviders THEN "builtin"
    ELSE LET item == RegistryGet(registry, provider_id) IN
         IF item # None THEN item[1].provider_type ELSE "builtin"

\* Mutant: a registered provider is kept whether or not it is enabled.
normalize_debate_provider_KeepDisabled(value, registry) ==
    LET normalized == TrimLower(value)
        canonical  == normalize_provider_alias(normalized)
    IN  IF normalized = "" THEN <<"local", None>>
        ELSE IF normalized \in BuiltinProviders THEN <<normalized, None>>
        ELSE IF RegistryGet(registry, canonical) # None THEN <<canonical, None>>
        ELSE <<"local", Some("DEBATE_WARN_PROVIDER_UNKNOWN_FALLBACK_LOCAL")>>

\* normalize_debate_provider: <<provider, Option<warning code>>>
normalize_debate_provider(value, registry) ==
    LET normalized == TrimLower(value)
        canonical  == normalize_provider_alias(normalized)
    IN  IF normalized = "" THEN <<"local", None>>
        ELSE IF normalized \in BuiltinProviders THEN <<normalized, None>>
        ELSE IF RegistryIsEnabled(registry, canonical) THEN <<canonical, None>>
        ELSE IF RegistryGet(registry, canonical) # None
        THEN <<"local", Some("DEBATE_WARN_PROVIDER_DISABLED_FALLBACK_LOCAL")>>
        ELSE <<"local", Some("DEBATE_WARN_PROVIDER_UNKNOWN_FALLBACK_LOCAL")>>

\* The match of normalize_debate_model_name on an empty model name.
DefaultModelName(provider) ==
    CASE provider = "openai"      -> "gpt-4.1-mini"
      [] provider = "gemini"      -> "gemini-2.0-flash"
      [] provider = "claude"      -> "claude-3-5-sonnet-latest"
      [] provider = "codex-cli"   -> "codex"
      [] provider = "gemini-cli"  -> "gemini"
      [] provider = "claude-cli"  -> "claude"
      [] provider = "chatgpt-web" -> "chatgpt-web"
      [] provider = "gemini-web"  -> "gemini-web"
      [] provider = "claude-web"  -> "claude-web"
      [] OTHER                    -> "local-heuristic-v1"

\* Mutant: the trimmed input is returned even when it is empty.
normalize_debate_model_name_NoDefault(provider, model_name) == Trim(model_name)

\* normalize_debate_model_name
normalize_debate_model_name(provider, model_name) ==
    LET trimmed == Trim(model_name) IN
    IF trimmed # "" THEN trimmed ELSE DefaultModelName(provider)

\* parse_debate_role: Option<DebateRole>
parse_debate_role(value) ==
    LET v == TrimLower(value) IN
    CASE v = "proponent"   -> Some("Proponent")
      [] v = "critic"      -> Some("Critic")
      [] v = "analyst"     -> Some("Analyst")
      [] v = "synthesizer" -> Some("Synthesizer")
      [] v = "judge"       -> Some("Judge")
      [] OTHER             -> None

\* Mutant: an entry already present for the role is kept.
ProvidedInsert_KeepFirst(provided, role, item) ==
    IF provided[role] = None THEN [provided EXCEPT ![role] = Some(item)]
    ELSE provided

\* provided.insert(role, item) on the HashMap<DebateRole, _>: replaces.
ProvidedInsert(provided, role, item) == [provided EXCEPT ![role] = Some(item)]

\* The participant-for-role a config entry yields (the Some(role) branch).
RuntimeParticipant(role, config, registry) ==
    LET provider_input == UnwrapOr(config.model_provider, "local")
        provider == normalize_debate_provider(Trim(provider_input), registry)[1]
    IN  [role           |-> role,
         model_provider |-> provider,
         provider_type  |-> resolve_provider_type(provider, registry),
         model_name     |-> normalize_debate_model_name(
                                provider, UnwrapOr(config.model_name, ""))]

\* The warning codes one config entry pushes, in order.
ConfigWarnings(config, registry) ==
    LET role_name        == UnwrapOr(config.role, "")
        provider_input   == UnwrapOr(config.model_provider, "local")
        input_normalized == TrimLower(provider_input)
        np               == normalize_debate_provider(Trim(provider_input), registry)
    IN  IF parse_debate_role(role_name) # None
        THEN (IF np[1] # input_normalized /\ input_normalized # ""
              THEN <<"DEBATE_WARN_PROVIDER_NORMALIZED">> ELSE <<>>)
             \o np[2]
        ELSE IF Trim(role_name) # ""
        THEN <<"DEBATE_WARN_UNKNOWN_ROLE_IGNORED">>
        ELSE <<>>

\* The first loop of normalize_debate_request: the `provided` map.
RECURSIVE CollectProvided(_, _, _, _)
CollectProvided(configs, i, registry, provided) ==
    IF i > Len(configs) THEN provided
    ELSE LET role == parse_debate_role(UnwrapOr(configs[i].role, "")) IN
         CollectProvided(configs, i + 1, registry,
            IF role # None
            THEN ProvidedInsert(provided, role[1],
                                RuntimeParticipant(role[1], configs[i], registry))
            ELSE provided)

\* The first loop of normalize_debate_request: warning_codes.
RECURSIVE CollectWarnings(_, _, _)
CollectWarnings(configs, i, registry) ==
    IF i > Len(configs) THEN <<>>
    ELSE ConfigWarnings(configs[i], registry)
         \o CollectWarnings(configs, i + 1, registry)

\* The participant synthesized for a role no entry supplies.
LocalParticipant(role) ==
    [role           |-> role,
     model_provider |-> "local",
     provider_type  |-> "builtin",
     model_name     |-> normalize_debate_model_name("local", "")]

\* normalize_debate_request
normalize_debate_request(request, registry) ==
    LET problem  == Trim(request.problem)
        out_type == normalize_debate_output_type(request.output_type)
        provided == CollectProvided(request.participants, 1, registry,
                        [r \in SeqToSet(DebateRoleAll) |-> None])
    IN  IF problem = "" THEN debate_error("DEBATE_ERR_INPUT")
        ELSE IF ~out_type.ok THEN out_type
        ELSE [ok            |-> TRUE,
              problem       |-> problem,
              output_type   |-> out_type.value,
              participants  |->
                  [i \in 1..Len(DebateRoleAll) |->
                      IF provided[DebateRoleAll[i]] # None
                      THEN provided[DebateRoleAll[i]][1]
                      ELSE LocalParticipant(DebateRoleAll[i])],
              writeback_record_type |->
                  IF request.writeback_record_type # None
                     /\ Trim(request.writeback_record_type[1]) # ""
                  THEN Some(Trim(request.writeback_record_type[1]))
                  ELSE None,
              warning_codes |->
                  dedup_non_empty(CollectWarnings(request.participants, 1, registry))]

(* ---------------------------------------------------------------------- *)
(* The state machine guard                                                 *)
(* ---------------------------------------------------------------------- *)

\* Mutant: the guard also lets a run skip the Judge state.
validate_debate_transition_SkipJudge(current, next) ==
    \/ current = None /\ next = "Intake"
    \/ current = Some("Intake") /\ next = "Round1"
    \/ current = Some("Round1") /\ next = "Round2"
    \/ current = Some("Round2") /\ next = "Round3"
    \/ current = Some("Round3") /\ next = "Consensus"
    \/ current = Some("Consensus") /\ next = "Judge"
    \/ current = Some("Consensus") /\ next = "Packetize"
    \/ current = Some("Judge") /\ next = "Packetize"
    \/ current = Some("Packetize") /\ next = "Writeback"

\* validate_debate_transition
validate_debate_transition(current, next) ==
    \/ current = None /\ next = "Intake"
    \/ current = Some("Intake") /\ next = "Round1"
    \/ current = Some("Round1") /\ next = "Round2"
    \/ current = Some("Round2") /\ next = "Round3"
    \/ current = Some("Round3") /\ next = "Consensus"
    \/ current = Some("Consensus") /\ next = "Judge"
    \/ current = Some("Judge") /\ next = "Packetize"
    \/ current = Some("Packetize") /\ next = "Writeback"

\* advance_debate_state: the Result and the value *current holds afterwards.
advance_debate_state(current, next) ==
    IF validate_debate_transition(current, next)
    THEN [ok |-> TRUE, code |-> "OK", state |-> Some(next)]
    ELSE [ok |-> FALSE, code |-> "DEBATE_ERR_STATE", state |-> current]

(* ---------------------------------------------------------------------- *)
(* Turns                                                                   *)
(* ---------------------------------------------------------------------- *)

\* provider_uses_local_stub
provider_uses_local_stub(provider_id, provider_type) ==
    provider_type = "web"
    \/ provider_id \in {"chatgpt-web", "gemini-web", "claude-web"}

\* The code run_debate_provider_text wraps a transport's error in.
ProviderErrorCode(provider) ==
    CASE provider = "codex-cli"  -> "DEBATE_ERR_PROVIDER_CODEX_CLI"
      [] provider = "gemini-cli" -> "DEBATE_ERR_PROVIDER_GEMINI_CLI"
      [] provider = "claude-cli" -> "DEBATE_ERR_PROVIDER_CLAUDE_CLI"
      [] provider = "openai"     -> "DEBATE_ERR_PROVIDER_OPENAI"
      [] provider = "gemini"     -> "DEBATE_ERR_PROVIDER_GEMINI"
      [] provider = "claude"     -> "DEBATE_ERR_PROVIDER_CLAUDE"
      [] OTHER                   -> "DEBATE_ERR_PROVIDER_UNSUPPORTED"

\* run_debate_provider_text: a transport (a subprocess, an HTTP call) may
\* answer or fail; an id no arm handles always fails.  Each outcome is
\* <<status, Option<error code>>> as parse_debate_error splits it.
run_debate_provider_text(provider) ==
    IF provider \in {"codex-cli", "gemini-cli", "claude-cli", "openai",
                     "gemini", "claude"}
    THEN {<<"ok", None>>, <<"failed", Some(ProviderErrorCode(provider))>>}
    ELSE IF provider = "local" THEN {<<"ok", None>>}
    ELSE {<<"failed", Some(ProviderErrorCode(provider))>>}

\* execute_debate_turn: the turns it can return.
execute_debate_turn(participant, round_name, previous_rounds) ==
    LET outcomes ==
            IF participant.model_provider = "local"
               \/ provider_uses_local_stub(participant.model_provider,
                                           participant.provider_type)
            THEN {<<"ok", None>>}
            ELSE run_debate_provider_text(participant.model_provider)
    IN  {[role            |-> participant.role,
          round           |-> round_name,
          model_provider  |-> participant.model_provider,
          model_name      |-> participant.model_name,
          status          |-> o[1],
          error_code      |-> o[2],
          previous_rounds |-> [i \in 1..Len(previous_rounds) |->
                                  previous_rounds[i].round]] : o \in outcomes}

(* ---------------------------------------------------------------------- *)
(* Consensus arithmetic                                                    *)
(* ---------------------------------------------------------------------- *)

\* An f64 in [0,1] with three decimals is kept as its count of thousandths;
\* the quotient num/den stands for the f64 the code computes.  For 15 turns
\* no product lies within 1/6 of a rounding tie, so f64 error changes nothing.

\* Mutant: the score is truncated instead of rounded.
round_score_Truncate(num, den) ==
    LET c == IF num < 0 THEN 0 ELSE IF num > den THEN den ELSE num
    IN  (1000 * c) \div den

\* round_score: (value.clamp(0.0, 1.0) * 1000.0).round() / 1000.0
round_score(num, den) ==
    LET c == IF num < 0 THEN 0 ELSE IF num > den THEN den ELSE num
    IN  (2000 * c + den) \div (2 * den)

RECURSIVE SumLen(_, _)
SumLen(rs, i) == IF i > Len(rs) THEN 0 ELSE Len(rs[i].turns) + SumLen(rs, i + 1)

OkCount(ts) == Cardinality({i \in 1..Len(ts) : ts[i].status = "ok"})

RECURSIVE SumOk(_, _)
SumOk(rs, i) == IF i > Len(rs) THEN 0 ELSE OkCount(rs[i].turns) + SumOk(rs, i + 1)

\* rounds.iter().map(|round| round.turns.len()).sum()
TotalTurns(rs) == SumLen(rs, 1)

\* Mutant: every turn is counted, whatever its status.
OkTurns_CountAll(rs) == SumLen(rs, 1)

\* the count of turns with status "ok"
OkTurns(rs) == SumOk(rs, 1)

\* build_debate_consensus: the two scores.
build_debate_consensus(rs) ==
    LET total_turns   == TotalTurns(rs)
        ok_turns      == OkTurns(rs)
        failure_count == IF total_turns >= ok_turns
                         THEN total_turns - ok_turns ELSE 0
        base_num      == IF total_turns = 0 THEN 0 ELSE ok_turns
        base_den      == IF total_turns = 0 THEN 1 ELSE total_turns
        \* base_score - failure_count * 0.03
        conf_num      == 100 * base_num - 3 * failure_count * base_den
        conf_den      == 100 * base_den
    IN  [consensus_score  |-> round_score(base_num, base_den),
         confidence_score |-> round_score(conf_num, conf_den)]

(* ---------------------------------------------------------------------- *)
(* The Final Packet                                                        *)
(* ---------------------------------------------------------------------- *)

\* build_debate_actions: always A1, A2, A3, owner "me", due a formatted date.
build_debate_actions ==
    <<[id |-> "A1", owner |-> "me", due_is_date |-> TRUE],
      [id |-> "A2", owner |-> "me", due_is_date |-> TRUE],
      [id |-> "A3", owner |-> "me", due_is_date |-> TRUE]>>

\* The DebateFinalPacket literal of run_debate_mode_internal.
BuildFinalPacket(run_id, norm, rs) ==
    [run_id       |-> run_id,
     mode         |-> "debate-v0.1",
     problem      |-> norm.problem,
     output_type  |-> norm.output_type,
     participants |-> [i \in 1..Len(norm.participants) |->
                          [role           |-> norm.participants[i].role,
                           model_provider |-> norm.participants[i].model_provider,
                           model_name     |-> norm.participants[i].model_name]],
     consensus    |-> build_debate_consensus(rs),
     next_actions |-> build_debate_actions,
     trace        |-> [round_refs    |-> DebateRoundAll,
                       evidence_refs |->
                           <<[prefix |-> "", path |-> <<"debates", run_id, "request.json">>],
                             [prefix |-> "", path |-> <<"debates", run_id, "consensus.json">>]>>],
     timestamps   |-> [started_at |-> "t0", finished_at |-> "t1"]]

\* validate_final_packet.  The run_id test is left out: a run id is a
\* formatted timestamp (generate_debate_run_id), never blank.
validate_final_packet(packet) ==
    LET roles_seen ==
            {parse_debate_role(packet.participants[i].role) :
                 i \in 1..Len(packet.participants)}
    IN  IF packet.problem = "" THEN debate_error("DEBATE_ERR_PACKET")
        ELSE IF ~normalize_debate_output_type(packet.output_type).ok
        THEN debate_error("DEBATE_ERR_INPUT")
        ELSE IF Len(packet.participants) # Len(DebateRoleAll)
        THEN debate_error("DEBATE_ERR_PACKET")
        ELSE IF None \in roles_seen THEN debate_error("DEBATE_ERR_PACKET")
        ELSE IF \E i \in 1..Len(packet.participants) :
                    \/ Trim(packet.participants[i].model_provider) = ""
                    \/ Trim(packet.participants[i].model_name) = ""
        THEN debate_error("DEBATE_ERR_PACKET")
        ELSE IF Cardinality(roles_seen) # Len(DebateRoleAll)
        THEN debate_error("DEBATE_ERR_PACKET")
        ELSE IF \/ packet.consensus.consensus_score \notin 0..1000
                \/ packet.consensus.confidence_score \notin 0..1000
        THEN debate_error("DEBATE_ERR_PACKET")
        ELSE IF packet.next_actions = <<>> THEN debate_error("DEBATE_ERR_PACKET")
        ELSE IF \E i \in 1..Len(packet.next_actions) :
                    \/ packet.next_actions[i].id = ""
                    \/ packet.next_actions[i].owner = ""
                    \/ ~packet.next_actions[i].due_is_date
        THEN debate_error("DEBATE_ERR_PACKET")
        ELSE IF packet.timestamps.started_at = ""
                \/ packet.timestamps.finished_at = ""
        THEN debate_error("DEBATE_ERR_PACKET")
        ELSE [ok |-> TRUE, code |-> "OK"]

\* RECORD_TYPE_DIRS
RecordTypeDirs ==
    [decision |-> "decisions", worklog |-> "worklogs", idea |-> "ideas",
     backlog |-> "backlogs", note |-> "other"]

\* normalize_record_type
normalize_record_type(record_type) ==
    LET lower == TrimLower(record_type) IN
    IF lower \in DOMAIN RecordTypeDirs THEN lower ELSE "note"

\* record_dir_by_type
record_dir_by_type(record_type) ==
    IF record_type \in DOMAIN RecordTypeDirs
    THEN RecordTypeDirs[record_type] ELSE "other"

\* Mutant: any requested record type is taken, not only decision/worklog.
select_writeback_record_type_AnyRequested(requested, output_type) ==
    IF requested # None THEN normalize_record_type(requested[1])
    ELSE IF output_type = "decision" THEN "decision" ELSE "worklog"

\* select_writeback_record_type
select_writeback_record_type(requested, output_type) ==
    IF requested # None
       /\ normalize_record_type(requested[1]) \in {"decision", "worklog"}
    THEN normalize_record_type(requested[1])
    ELSE IF output_type = "decision" THEN "decision" ELSE "worklog"

(* ---------------------------------------------------------------------- *)
(* State                                                                   *)
(* ---------------------------------------------------------------------- *)

Invocations == 1..MaxInvocations

VARIABLES
    \* run_debate_mode, per invocation
    lock,          \* DebateLock: Option<run id>
    clock,         \* the wall clock generate_debate_run_id reads
    pc,            \* where each invocation of run_debate_mode stands
    central_home,  \* each invocation's central_home argument
    joined,        \* what spawn_blocking(..).await gave each invocation
    result,        \* what each invocation returned
    \* run_debate_mode_internal (the worker of invocation 1 in Spec)
    request,       \* DebateModeRequest
    registry,      \* DebateProviderRegistry::from_settings(load_settings())
    rpc,           \* where the worker stands
    normalized,    \* Option<DebateNormalizedRequest>
    state,         \* Option<DebateState>
    round,         \* index into DebateRound::all() of the round in progress
    turns,         \* the turns of the round in progress
    rounds,        \* Vec<DebateRoundArtifact>
    error_codes,   \* Vec<String>
    degraded,      \* bool
    final_packet,  \* Option<DebateFinalPacket>
    writeback_json_path, \* Option<String>
    files,         \* records/debates/{run_id}/: artifact name -> Option<content>
    record_files,  \* records/{decisions,worklogs,..}/: the paths that exist
    catalog,       \* debate_runs/debate_turns/debate_actions rows of the run
    run_result,    \* Option<Result<DebateModeResponse, String>> of the worker
    run_root,      \* whether records/debates/{run_id}/ exists
    replayed       \* Option<Result<DebateReplayResponse, String>> of a replay

VARIABLES
    \* the record store under <central_home>/records and its search index
    store_files,   \* the files that exist: path -> content
    index_db,      \* whether .agentic/<SEARCH_DB_FILE> exists
    records_fts,   \* the rows of the records_fts table, a bag
    index_meta,    \* Option<the recordCount row of records_index_meta>
    store_result,  \* Option<what the last record-store command returned>
    since_rebuild  \* history: Option<whether only upsert_record and
                   \* delete_record ran since the last successful
                   \* rebuild_search_index>

VARIABLES
    \* the settings of the application
    settings_file,   \* Option<the AppSettings that the settings file holds>
    settings_result  \* Option<what the last settings command returned>

VARIABLES
    \* a call of run_cli_provider
    cli_pc,            \* "idle", "first" (before the first attempt) or "retry"
    cli_call,          \* Option<the provider id and the model of the call>
    cli_attempts,      \* the runs of the command: model argument and outcome
    cli_retry_models,  \* retry_models, what is left of it
    cli_return         \* Option<Result<String, String>> of the call

VARIABLES
    \* commands that run at the same time, step by step
    writers,       \* writer -> the write_atomic calls of its command
    rebuild_scan,  \* Option<the records that a rebuild_search_index in
                   \* progress has read>
    pending,       \* Option<the index update that an upsert_record or a
                   \* delete_record in progress has still to make>
    creations      \* history of SpecCreate: the calls of UpsertNewRecord that
                   \* returned Ok, at most MaxCreated

facade_vars == <<lock, clock, pc, central_home, joined, result>>

settings_vars == <<settings_file, settings_result>>

cli_vars == <<cli_pc, cli_call, cli_attempts, cli_retry_models, cli_return>>

step_vars == <<writers, rebuild_scan, pending>>

\* No call of run_cli_provider has been made.
IdleCli ==
    /\ cli_pc = "idle"
    /\ cli_call = <<>>
    /\ cli_attempts = <<>>
    /\ cli_retry_models = <<>>
    /\ cli_return = <<>>

\* No command is in progress and no record has been created.
IdleSteps ==
    /\ writers = <<>>
    /\ rebuild_scan = <<>>
    /\ pending = <<>>
    /\ creations = 0

store_vars ==
    <<store_files, index_db, records_fts, index_meta, store_result, since_rebuild,
      settings_vars, cli_vars, step_vars, creations>>

run_vars ==
    <<request, registry, rpc, normalized, state, round, turns, rounds,
      error_codes, degraded, final_packet, writeback_json_path, files,
      record_files, catalog, run_result, run_root, replayed, store_vars>>

vars == <<facade_vars, run_vars>>

(* ---------------------------------------------------------------------- *)
(* run_debate_mode: the facade around the DebateLock                       *)
(* ---------------------------------------------------------------------- *)

CentralHomeInputs == {"", "  ", "/home"}

\* generate_debate_run_id: a function of the wall clock alone.
generate_debate_run_id == clock

\* The wall clock advances.
Tick ==
    /\ clock < MaxClock
    /\ clock' = clock + 1
    /\ UNCHANGED <<lock, pc, central_home, joined, result, run_vars>>

\* The "Check lock" block: one critical section that only reads the guard.
CheckLock(p) ==
    /\ pc[p] = "idle"
    /\ \E home \in CentralHomeInputs :
          central_home' = [central_home EXCEPT ![p] = home]
    /\ IF lock # None
       THEN /\ result' = [result EXCEPT ![p] =
                            Some([ok |-> FALSE, code |-> "ALREADY_RUNNING",
                                  run_id |-> lock[1]])]
            /\ pc' = [pc EXCEPT ![p] = "done"]
       ELSE /\ pc' = [pc EXCEPT ![p] = "set"]
            /\ UNCHANGED result
    /\ UNCHANGED <<lock, clock, joined, run_vars>>

\* The "Set lock" block: a second critical section that writes the guard.
SetLock(p) ==
    /\ pc[p] = "set"
    /\ lock' = Some(generate_debate_run_id)
    /\ pc' = [pc EXCEPT ![p] = "home"]
    /\ UNCHANGED <<clock, central_home, joined, result, run_vars>>

\* normalized_home(&central_home)?: an Err returns from run_debate_mode here.
NormalizedHome(p) ==
    /\ pc[p] = "home"
    /\ IF Trim(central_home[p]) = ""
       THEN /\ result' = [result EXCEPT ![p] =
                            Some([ok |-> FALSE, code |-> "HOME_REQUIRED"])]
            /\ pc' = [pc EXCEPT ![p] = "done"]
       ELSE /\ pc' = [pc EXCEPT ![p] = "worker"]
            /\ UNCHANGED result
    /\ UNCHANGED <<lock, clock, central_home, joined, run_vars>>

\* What spawn_blocking(run_debate_mode_internal).await can give: the worker's
\* Ok, the worker's Err, or a join error when the worker panicked.
WorkerOutcomes ==
    {[ok |-> TRUE, code |-> "OK"],
     [ok |-> FALSE, code |-> "DEBATE_ERR"],
     [ok |-> FALSE, code |-> "JOIN_ERROR"]}

\* spawn_blocking(..).await with the worker's steps taken as one.
WorkerJoin(p) ==
    /\ pc[p] = "worker"
    /\ \E outcome \in WorkerOutcomes :
          joined' = [joined EXCEPT ![p] =
                        Some(IF outcome.ok
                             THEN [ok |-> TRUE, code |-> outcome.code,
                                   run_id |-> generate_debate_run_id]
                             ELSE outcome)]
    /\ pc' = [pc EXCEPT ![p] = "clear"]
    /\ UNCHANGED <<lock, clock, central_home, result, run_vars>>

\* "ALWAYS clear lock, even on error", then `result?`.
ClearLock(p) ==
    /\ pc[p] = "clear"
    /\ lock' = None
    /\ result' = [result EXCEPT ![p] = joined[p]]
    /\ pc' = [pc EXCEPT ![p] = "done"]
    /\ UNCHANGED <<clock, central_home, joined, run_vars>>

\* The files of records/debates/{run_id}/.
ArtifactNames ==
    {"request.json", "rounds/round-1.json", "rounds/round-2.json",
     "rounds/round-3.json", "failure.json", "consensus.json",
     "final-packet.json", "final-packet.md"}

\* An empty record store without a search index.
IdleStore ==
    /\ store_files = <<>>
    /\ index_db = FALSE
    /\ records_fts = <<>>
    /\ index_meta = None
    /\ store_result = None
    /\ since_rebuild = None
    /\ settings_file = None
    /\ settings_result = None
    /\ IdleCli
    /\ IdleSteps

\* An empty request: the worker's variables are not used in SpecLock.
IdleDebate ==
    /\ request = [problem |-> "", output_type |-> "", participants |-> <<>>,
                  writeback_record_type |-> None]
    /\ registry = DefaultRegistry
    /\ rpc = "start"
    /\ normalized = None
    /\ state = None
    /\ round = 0
    /\ turns = <<>>
    /\ rounds = <<>>
    /\ error_codes = <<>>
    /\ degraded = FALSE
    /\ final_packet = None
    /\ writeback_json_path = None
    /\ files = [n \in ArtifactNames |-> None]
    /\ record_files = {}
    /\ catalog = None
    /\ run_result = None
    /\ run_root = FALSE
    /\ replayed = None

IdleRun == IdleDebate /\ IdleStore

InitFacade ==
    /\ lock = None
    /\ clock = 0
    /\ pc = [p \in Invocations |-> "idle"]
    /\ central_home = [p \in Invocations |-> ""]
    /\ joined = [p \in Invocations |-> None]
    /\ result = [p \in Invocations |-> None]

InitLock == InitFacade /\ IdleRun

NextLock ==
    \/ Tick
    \/ \E p \in Invocations : CheckLock(p)
    \/ \E p \in Invocations : SetLock(p)
    \/ \E p \in Invocations : NormalizedHome(p)
    \/ \E p \in Invocations : WorkerJoin(p)
    \/ \E p \in Invocations : ClearLock(p)

\* Concurrent invocations of run_debate_mode on one DebateLock.
SpecLock == InitLock /\ [][NextLock]_vars

(* ---------------------------------------------------------------------- *)
(* run_debate_mode_internal, step by step                                  *)
(* ---------------------------------------------------------------------- *)
(* The worker is invocation 1's.  Each step runs up to and including one   *)
(* filesystem or database operation; io_ok tells whether that operation    *)
(* succeeds.  A failed write_atomic leaves its target as it was.           *)

Worker == 1

IoError == [ok |-> FALSE, code |-> "IO_ERROR"]

\* The worker returns `res`.
Return(res) == run_result' = Some(res) /\ rpc' = "returned"

\* rounds_root.join(format!("{}.json", round.as_str()))
RoundFile(r) ==
    CASE r = 1 -> "rounds/round-1.json"
      [] r = 2 -> "rounds/round-2.json"
      [] r = 3 -> "rounds/round-3.json"

\* write_json_artifact / write_atomic of one artifact of the run.
WriteArtifact(name, content) == files' = [files EXCEPT ![name] = Some(content)]

\* normalize_debate_request .. write request.json
Intake(io_ok) ==
    /\ pc[Worker] = "worker" /\ rpc = "start"
    /\ LET norm == normalize_debate_request(request, registry)
           adv  == advance_debate_state(state, "Intake")
       IN  IF ~norm.ok
           THEN /\ io_ok
                /\ Return([ok |-> FALSE, code |-> norm.code])
                /\ UNCHANGED <<normalized, state, error_codes, files, round,
                               run_root>>
           ELSE IF ~adv.ok
           THEN /\ io_ok
                /\ Return([ok |-> FALSE, code |-> adv.code])
                /\ normalized' = Some(norm)
                /\ error_codes' = norm.warning_codes
                /\ run_root' = TRUE
                /\ UNCHANGED <<state, files, round>>
           ELSE /\ normalized' = Some(norm)
                /\ error_codes' = norm.warning_codes
                /\ state' = adv.state
                /\ IF io_ok
                   THEN /\ WriteArtifact("request.json",
                               [runId |-> generate_debate_run_id,
                                problem |-> norm.problem,
                                outputType |-> norm.output_type,
                                participants |-> norm.participants,
                                warnings |-> norm.warning_codes])
                        /\ round' = 1
                        /\ run_root' = TRUE
                        /\ rpc' = "round_begin"
                        /\ UNCHANGED run_result
                   ELSE /\ Return(IoError)
                        /\ run_root' \in BOOLEAN
                        /\ UNCHANGED <<files, round>>
    /\ UNCHANGED <<facade_vars, store_vars, replayed, request, registry, turns, rounds, degraded,
                   final_packet, writeback_json_path, record_files, catalog>>

\* The head of the `for round in DebateRound::all()` body.
BeginRound ==
    /\ pc[Worker] = "worker" /\ rpc = "round_begin"
    /\ LET adv == advance_debate_state(state, RoundState(round))
       IN  IF adv.ok
           THEN /\ state' = adv.state
                /\ turns' = <<>>
                /\ rpc' = "turn"
                /\ UNCHANGED run_result
           ELSE /\ Return([ok |-> FALSE, code |-> adv.code])
                /\ UNCHANGED <<state, turns>>
    /\ UNCHANGED <<facade_vars, store_vars, run_root, replayed, request, registry, normalized, round, rounds,
                   error_codes, degraded, final_packet, writeback_json_path,
                   files, record_files, catalog>>

\* Mutant: a failed turn ends its round.
Turn_EndRoundOnFailure ==
    /\ pc[Worker] = "worker" /\ rpc = "turn"
    /\ LET participant == normalized[1].participants[Len(turns) + 1] IN
       \E turn \in execute_debate_turn(participant, DebateRoundAll[round], rounds) :
          /\ turns' = Append(turns, turn)
          /\ degraded' = (degraded \/ turn.status # "ok")
          /\ error_codes' = IF turn.status # "ok"
                            THEN error_codes \o turn.error_code
                            ELSE error_codes
          /\ rpc' = IF Len(turns) + 1 = Len(normalized[1].participants)
                       \/ turn.status # "ok"
                    THEN "round_end" ELSE "turn"
    /\ UNCHANGED <<facade_vars, store_vars, run_root, replayed, request, registry, normalized, state, round,
                   rounds, final_packet, writeback_json_path, files,
                   record_files, catalog, run_result>>

\* One pass of `for participant in &normalized.participants`.
Turn ==
    /\ pc[Worker] = "worker" /\ rpc = "turn"
    /\ LET participant == normalized[1].participants[Len(turns) + 1] IN
       \E turn \in execute_debate_turn(participant, DebateRoundAll[round], rounds) :
          /\ turns' = Append(turns, turn)
          /\ degraded' = (degraded \/ turn.status # "ok")
          /\ error_codes' = IF turn.status # "ok"
                            THEN error_codes \o turn.error_code
                            ELSE error_codes
          /\ rpc' = IF Len(turns) + 1 = Len(normalized[1].participants)
                    THEN "round_end" ELSE "turn"
    /\ UNCHANGED <<facade_vars, store_vars, run_root, replayed, request, registry, normalized, state, round,
                   rounds, final_packet, writeback_json_path, files,
                   record_files, catalog, run_result>>

\* The tail of the round body: write the round artifact, push it.
EndRound(io_ok) ==
    /\ pc[Worker] = "worker" /\ rpc = "round_end"
    /\ LET round_artifact == [round |-> DebateRoundAll[round], turns |-> turns]
       IN  IF io_ok
           THEN /\ WriteArtifact(RoundFile(round), round_artifact)
                /\ rounds' = Append(rounds, round_artifact)
                /\ IF round < Len(DebateRoundAll)
                   THEN round' = round + 1 /\ rpc' = "round_begin"
                   ELSE round' = round /\ rpc' = "after_rounds"
                /\ UNCHANGED run_result
           ELSE /\ Return(IoError)
                /\ UNCHANGED <<files, rounds, round>>
    /\ UNCHANGED <<facade_vars, store_vars, run_root, replayed, request, registry, normalized, state, turns,
                   error_codes, degraded, final_packet, writeback_json_path,
                   record_files, catalog>>

\* Mutant: consensus.json is not written.
AfterRounds_NoConsensusFile(io_ok) ==
    /\ pc[Worker] = "worker" /\ rpc = "after_rounds"
    /\ io_ok
    /\ OkTurns(rounds) > 0
    /\ state' = advance_debate_state(state, "Consensus").state
    /\ rpc' = "judge"
    /\ UNCHANGED <<facade_vars, store_vars, run_root, replayed, request, registry, normalized, round, turns,
                   rounds, error_codes, degraded, final_packet,
                   writeback_json_path, record_files, catalog, files, run_result>>

\* The all-turns-failed exit, else Consensus and consensus.json.
AfterRounds(io_ok) ==
    /\ pc[Worker] = "worker" /\ rpc = "after_rounds"
    /\ LET total_turns == TotalTurns(rounds)
           ok_turns    == OkTurns(rounds)
           adv         == advance_debate_state(state, "Consensus")
       IN  IF total_turns > 0 /\ ok_turns = 0
           THEN /\ IF io_ok
                   THEN /\ WriteArtifact("failure.json",
                               [runId |-> generate_debate_run_id,
                                totalTurns |-> total_turns,
                                okTurns |-> ok_turns,
                                errorCodes |-> dedup_non_empty(error_codes)])
                        /\ Return([ok |-> FALSE,
                                   code |-> "DEBATE_ERR_ALL_TURNS_FAILED",
                                   artifacts_root |->
                                       <<"debates", generate_debate_run_id>>])
                   ELSE Return(IoError) /\ UNCHANGED files
                /\ UNCHANGED state
           ELSE IF ~adv.ok
           THEN /\ io_ok
                /\ Return([ok |-> FALSE, code |-> adv.code])
                /\ UNCHANGED <<state, files>>
           ELSE /\ state' = adv.state
                /\ IF io_ok
                   THEN /\ WriteArtifact("consensus.json",
                                         build_debate_consensus(rounds))
                        /\ rpc' = "judge"
                        /\ UNCHANGED run_result
                   ELSE Return(IoError) /\ UNCHANGED files
    /\ UNCHANGED <<facade_vars, store_vars, run_root, replayed, request, registry, normalized, round, turns,
                   rounds, error_codes, degraded, final_packet,
                   writeback_json_path, record_files, catalog>>

\* advance to Judge; build_debate_decision, _risks, _actions.
Judge ==
    /\ pc[Worker] = "worker" /\ rpc = "judge"
    /\ LET adv == advance_debate_state(state, "Judge")
       IN  IF adv.ok
           THEN state' = adv.state /\ rpc' = "packetize" /\ UNCHANGED run_result
           ELSE Return([ok |-> FALSE, code |-> adv.code]) /\ UNCHANGED state
    /\ UNCHANGED <<facade_vars, store_vars, run_root, replayed, request, registry, normalized, round, turns,
                   rounds, error_codes, degraded, final_packet,
                   writeback_json_path, files, record_files, catalog>>

\* advance to Packetize; build and validate the packet; final-packet.json.
Packetize(io_ok) ==
    /\ pc[Worker] = "worker" /\ rpc = "packetize"
    /\ LET adv    == advance_debate_state(state, "Packetize")
           packet == BuildFinalPacket(generate_debate_run_id, normalized[1], rounds)
           valid  == validate_final_packet(packet)
       IN  IF ~adv.ok
           THEN /\ io_ok
                /\ Return([ok |-> FALSE, code |-> adv.code])
                /\ UNCHANGED <<state, final_packet, files>>
           ELSE /\ state' = adv.state
                /\ final_packet' = Some(packet)
                /\ IF ~valid.ok
                   THEN /\ io_ok
                        /\ Return([ok |-> FALSE, code |-> valid.code])
                        /\ UNCHANGED files
                   ELSE IF io_ok
                   THEN /\ WriteArtifact("final-packet.json", packet)
                        /\ rpc' = "packet_md"
                        /\ UNCHANGED run_result
                   ELSE Return(IoError) /\ UNCHANGED files
    /\ UNCHANGED <<facade_vars, store_vars, run_root, replayed, request, registry, normalized, round, turns,
                   rounds, error_codes, degraded, writeback_json_path,
                   record_files, catalog>>

\* render_debate_packet_markdown: the packet it renders.
render_debate_packet_markdown(packet) == [markdown_of |-> packet]

\* final-packet.md of the initial packet.
PacketMarkdown(io_ok) ==
    /\ pc[Worker] = "worker" /\ rpc = "packet_md"
    /\ IF io_ok
       THEN /\ WriteArtifact("final-packet.md",
                             render_debate_packet_markdown(final_packet[1]))
            /\ rpc' = "writeback"
            /\ UNCHANGED run_result
       ELSE Return(IoError) /\ UNCHANGED files
    /\ UNCHANGED <<facade_vars, store_vars, run_root, replayed, request, registry, normalized, state, round,
                   turns, rounds, error_codes, degraded, final_packet,
                   writeback_json_path, record_files, catalog>>

\* upsert_record(home, payload, None) as writeback_debate_result calls it:
\* the structured path of the record it writes.
WritebackPath(norm, packet, ext) ==
    LET record_type == normalize_record_type(
                           select_writeback_record_type(
                               norm.writeback_record_type, packet.output_type))
    IN  <<"records", record_dir_by_type(record_type),
          <<clock, record_type, "debate">>, ext>>

\* advance to Writeback; upsert_record writes the structured file.
WritebackJson(io_ok) ==
    /\ pc[Worker] = "worker" /\ rpc = "writeback"
    /\ LET adv == advance_debate_state(state, "Writeback")
       IN  IF ~adv.ok
           THEN /\ io_ok
                /\ Return([ok |-> FALSE, code |-> adv.code])
                /\ UNCHANGED <<state, record_files>>
           ELSE /\ state' = adv.state
                /\ IF io_ok
                   THEN /\ record_files' = record_files \cup
                               {WritebackPath(normalized[1], final_packet[1], "json")}
                        /\ rpc' = "writeback_md"
                        /\ UNCHANGED run_result
                   ELSE Return(IoError) /\ UNCHANGED record_files
    /\ UNCHANGED <<facade_vars, store_vars, run_root, replayed, request, registry, normalized, round, turns,
                   rounds, error_codes, degraded, final_packet,
                   writeback_json_path, files, catalog>>

\* upsert_record writes the markdown file and returns the record.  Its
\* upsert_index_record_if_exists returns at once: the home of a run has no
\* index database before the run's own upsert_debate_index.
WritebackMarkdown(io_ok) ==
    /\ pc[Worker] = "worker" /\ rpc = "writeback_md"
    /\ IF io_ok
       THEN /\ record_files' = record_files \cup
                   {WritebackPath(normalized[1], final_packet[1], "md")}
            /\ writeback_json_path' =
                   Some(WritebackPath(normalized[1], final_packet[1], "json"))
            /\ rpc' = "amend"
            /\ UNCHANGED run_result
       ELSE Return(IoError) /\ UNCHANGED <<record_files, writeback_json_path>>
    /\ UNCHANGED <<facade_vars, store_vars, run_root, replayed, request, registry, normalized, state, round,
                   turns, rounds, error_codes, degraded, final_packet, files,
                   catalog>>

\* The packet with writeback:{path} pushed and finished_at refreshed.
AmendedPacket(packet, path) ==
    [packet EXCEPT
        !.trace.evidence_refs =
            IF path # None
            THEN Append(@, [prefix |-> "writeback", path |-> path[1]])
            ELSE @,
        !.timestamps.finished_at = "t2"]

\* Amend the packet, validate it again, rewrite final-packet.json.
AmendPacket(io_ok) ==
    /\ pc[Worker] = "worker" /\ rpc = "amend"
    /\ LET packet == AmendedPacket(final_packet[1], writeback_json_path)
           valid  == validate_final_packet(packet)
       IN  /\ final_packet' = Some(packet)
           /\ IF ~valid.ok
              THEN /\ io_ok
                   /\ Return([ok |-> FALSE, code |-> valid.code])
                   /\ UNCHANGED files
              ELSE IF io_ok
              THEN /\ WriteArtifact("final-packet.json", packet)
                   /\ rpc' = "amend_md"
                   /\ UNCHANGED run_result
              ELSE Return(IoError) /\ UNCHANGED files
    /\ UNCHANGED <<facade_vars, store_vars, run_root, replayed, request, registry, normalized, state, round,
                   turns, rounds, error_codes, degraded, writeback_json_path,
                   record_files, catalog>>

\* Rewrite final-packet.md from the amended packet.
AmendMarkdown(io_ok) ==
    /\ pc[Worker] = "worker" /\ rpc = "amend_md"
    /\ IF io_ok
       THEN /\ WriteArtifact("final-packet.md",
                             render_debate_packet_markdown(final_packet[1]))
            /\ rpc' = "index"
            /\ UNCHANGED run_result
       ELSE Return(IoError) /\ UNCHANGED files
    /\ UNCHANGED <<facade_vars, store_vars, run_root, replayed, request, registry, normalized, state, round,
                   turns, rounds, error_codes, degraded, final_packet,
                   writeback_json_path, record_files, catalog>>

\* Mutant: only the ok turns get a debate_turns row.
upsert_debate_index_OkTurnsOnly(packet, rs, is_degraded, path) ==
    [run_id  |-> packet.run_id,
     turns   |-> SumOk(rs, 1),
     actions |-> Len(packet.next_actions),
     degraded |-> is_degraded,
     writeback_json_path |-> path]

\* upsert_debate_index: the debate_runs row of the run and the numbers of
\* debate_turns and debate_actions rows it has after the transaction.
upsert_debate_index(packet, rs, is_degraded, path) ==
    [run_id  |-> packet.run_id,
     turns   |-> SumLen(rs, 1),
     actions |-> Len(packet.next_actions),
     degraded |-> is_degraded,
     writeback_json_path |-> path]

\* upsert_debate_index, then Ok(DebateModeResponse).  open_index_connection
\* creates the database file when it is missing and ensure_index_schema
\* creates its tables; records_fts gets no row.  A failure comes before or
\* after the file's creation.
IndexAndRespond(io_ok) ==
    /\ pc[Worker] = "worker" /\ rpc = "index"
    /\ IF io_ok
       THEN /\ catalog' = Some(upsert_debate_index(final_packet[1], rounds,
                                                    degraded, writeback_json_path))
            /\ Return([ok                  |-> TRUE,
                       code                |-> "OK",
                       run_id              |-> generate_debate_run_id,
                       mode                |-> "debate-v0.1",
                       state               |-> UnwrapOr(state, "Intake"),
                       degraded            |-> degraded,
                       final_packet        |-> final_packet[1],
                       artifacts_root      |-> <<"debates", generate_debate_run_id>>,
                       writeback_json_path |-> writeback_json_path,
                       error_codes         |-> dedup_non_empty(error_codes)])
            /\ index_db' = TRUE
       ELSE /\ Return(IoError)
            /\ index_db' \in {index_db, TRUE}
            /\ UNCHANGED catalog
    /\ UNCHANGED <<facade_vars, store_files, records_fts, index_meta, store_result,
                   since_rebuild, settings_vars, cli_vars, step_vars, creations,
                   run_root, replayed, request, registry,
                   normalized, state, round, turns, rounds, error_codes,
                   degraded, final_packet, writeback_json_path, files,
                   record_files>>

\* spawn_blocking(..).await once the worker has returned.
Join ==
    /\ pc[Worker] = "worker" /\ rpc = "returned"
    /\ joined' = [joined EXCEPT ![Worker] =
                     Some([ok |-> run_result[1].ok, code |-> run_result[1].code])]
    /\ pc' = [pc EXCEPT ![Worker] = "clear"]
    /\ UNCHANGED <<lock, clock, central_home, result, run_vars>>

(* ---------------------------------------------------------------------- *)
(* replay_debate_mode_internal                                             *)
(* ---------------------------------------------------------------------- *)

\* run_root.exists() for the run directory of `run_id`.
RunRootExists(run_id) == run_id = generate_debate_run_id /\ run_root

\* The round files that exist, in DebateRound::all() order.
RECURSIVE ReplayRounds(_)
ReplayRounds(r) ==
    IF r > Len(DebateRoundAll) THEN <<>>
    ELSE (IF files[RoundFile(r)] # None THEN <<files[RoundFile(r)][1]>> ELSE <<>>)
         \o ReplayRounds(r + 1)

\* "Missing round artifact: {path}" for each round file that is missing.
RECURSIVE MissingRoundIssues(_)
MissingRoundIssues(r) ==
    IF r > Len(DebateRoundAll) THEN <<>>
    ELSE (IF files[RoundFile(r)] = None
          THEN <<[issue |-> "Missing round artifact", of |-> RoundFile(r)]>>
          ELSE <<>>)
         \o MissingRoundIssues(r + 1)

\* The loop over final_packet.trace.evidence_refs: the record found last
\* and a "Writeback reference missing" issue for each one not found.
RECURSIVE ReplayWriteback(_, _, _)
ReplayWriteback(refs, i, acc) ==
    IF i > Len(refs) THEN acc
    ELSE ReplayWriteback(refs, i + 1,
            IF refs[i].prefix # "writeback" THEN acc
            ELSE IF refs[i].path \in record_files
            THEN [acc EXCEPT !.record = Some(refs[i].path)]
            ELSE [acc EXCEPT !.issues =
                     Append(@, [issue |-> "Writeback reference missing",
                                of |-> refs[i].path])])

\* count_debate_turns
count_debate_turns(run_id) ==
    IF catalog # None /\ catalog[1].run_id = run_id THEN catalog[1].turns ELSE 0

\* count_debate_actions
count_debate_actions(run_id) ==
    IF catalog # None /\ catalog[1].run_id = run_id THEN catalog[1].actions ELSE 0

\* "Turn count mismatch" / "Action count mismatch"
ReplayCountIssues(rounds_read, packet, run_id) ==
    LET expected_turns   == SumLen(rounds_read, 1)
        expected_actions == Len(packet.next_actions)
    IN  (IF count_debate_turns(run_id) # expected_turns
         THEN <<[issue |-> "Turn count mismatch", of |-> expected_turns]>>
         ELSE <<>>)
        \o (IF count_debate_actions(run_id) # expected_actions
            THEN <<[issue |-> "Action count mismatch", of |-> expected_actions]>>
            ELSE <<>>)

\* read_json_value: the first of the three files that is missing, if any.
FirstMissingArtifact ==
    IF files["request.json"] = None THEN Some("request.json")
    ELSE IF files["consensus.json"] = None THEN Some("consensus.json")
    ELSE IF files["final-packet.json"] = None THEN Some("final-packet.json")
    ELSE None

\* replay_debate_mode_internal(central_home, run_id)
replay_debate_mode_internal(run_id) ==
    IF ~RunRootExists(run_id)
    THEN [ok |-> FALSE, code |-> "DEBATE_ERR_NOT_FOUND", run_id |-> run_id,
          missing |-> "run directory"]
    ELSE IF FirstMissingArtifact # None
    THEN [ok |-> FALSE, code |-> "DEBATE_ERR_NOT_FOUND", run_id |-> run_id,
          missing |-> FirstMissingArtifact[1]]
    ELSE
        LET packet      == files["final-packet.json"][1]
            rounds_read == ReplayRounds(1)
            wb          == ReplayWriteback(packet.trace.evidence_refs, 1,
                               [record |-> None, issues |-> MissingRoundIssues(1)])
            issues      == wb.issues \o ReplayCountIssues(rounds_read, packet, run_id)
        IN  [ok               |-> TRUE,
             code             |-> "OK",
             run_id           |-> run_id,
             rounds           |-> rounds_read,
             final_packet     |-> packet,
             writeback_record |-> wb.record,
             files_complete   |-> /\ files["request.json"] # None
                                  /\ files["consensus.json"] # None
                                  /\ files["final-packet.json"] # None
                                  /\ Len(rounds_read) = Len(DebateRoundAll),
             sql_indexed      |-> \/ count_debate_turns(run_id) > 0
                                  \/ count_debate_actions(run_id) > 0,
             issues           |-> issues]

\* The run ids a replay is asked for: the run's and one no run has.
ReplayRunIds == {generate_debate_run_id, generate_debate_run_id + 1}

\* replay_debate_mode, once run_debate_mode has returned its worker's result.
\* count_debate_turns opens the index connection, which creates the database
\* file when it is missing.
Replay ==
    /\ pc[Worker] = "done"
    /\ rpc = "returned"
    /\ replayed = None
    /\ \E run_id \in ReplayRunIds :
          LET response == replay_debate_mode_internal(run_id)
          IN  /\ replayed' = Some(response)
              /\ index_db' = (index_db \/ response.ok)
    /\ UNCHANGED <<facade_vars, store_files, records_fts, index_meta, store_result,
                   since_rebuild, settings_vars, cli_vars, step_vars, creations,
                   request, registry, rpc,
                   normalized, state,
                   round, turns, rounds, error_codes, degraded, final_packet,
                   writeback_json_path, files, record_files, catalog,
                   run_result, run_root>>

(* ---------------------------------------------------------------------- *)
(* The requests of the model                                               *)
(* ---------------------------------------------------------------------- *)

Participant(role, provider, model) ==
    [role |-> role, model_provider |-> provider, model_name |-> model]

\* DebateParticipantConfig values: known, differently cased, unknown and
\* missing roles; hosted, aliased, CLI, web, disabled, unknown and missing
\* providers; given, blank and missing model names.
ParticipantInputs ==
    {Participant(Some("Critic"), Some("openai"), Some("gpt-4.1-mini")),
     Participant(Some(" critic "), Some("Codex"), None),
     Participant(Some("Judge"), Some("gemini-web"), Some("  ")),
     Participant(Some("Moderator"), Some("openai"), None),
     Participant(None, None, None),
     Participant(Some("JUDGE"), Some("zzz"), Some("m")),
     Participant(Some("Analyst"), Some("gemini"), Some("gemini-2.0-flash")),
     Participant(Some("Critic"), Some("chatgpt"), None),
     Participant(Some("Proponent"), Some(""), Some("")),
     Participant(Some("Judge"), Some(CustomProviderId), None)}

\* Every participants list of at most MaxParticipants entries.
BoundedLists ==
    UNION {[1..n -> ParticipantInputs] : n \in 0..MaxParticipants}

\* Five roles away from the local provider: three on a registered id that
\* no transport handles (its turns always fail), two on hosted providers
\* that may answer or fail.  Where my-cli is not registered those three
\* fall back to local.
AllExternalList ==
    <<Participant(Some("Proponent"), Some(CustomProviderId), None),
      Participant(Some("Critic"), Some(CustomProviderId), None),
      Participant(Some("Analyst"), Some(CustomProviderId), None),
      Participant(Some("Synthesizer"), Some("openai"), None),
      Participant(Some("Judge"), Some("gemini"), None)>>

\* tests::debate_degraded_when_provider_fails
DegradedList ==
    <<Participant(Some("Analyst"), Some("gemini"), Some("gemini-2.0-flash"))>>

SampleLists == {<<>>, DegradedList, AllExternalList}

\* tests::sample_request, without its participants
SampleShape ==
    [problem |-> "Choose", output_type |-> "decision",
     writeback_record_type |-> Some("decision")]

\* problem, output_type and writeback_record_type: valid, cased, blank, unknown.
RequestShapes ==
    {SampleShape,
     [problem |-> "Choose", output_type |-> "PLANNING",
      writeback_record_type |-> Some("idea")],
     [problem |-> "Choose", output_type |-> "writing",
      writeback_record_type |-> Some(" Decision ")],
     [problem |-> "Choose", output_type |-> "planning",
      writeback_record_type |-> None],
     [problem |-> "  ", output_type |-> "decision",
      writeback_record_type |-> None],
     [problem |-> "Choose", output_type |-> "Essay",
      writeback_record_type |-> None]}

Request(shape, participants) ==
    [problem |-> shape.problem, output_type |-> shape.output_type,
     participants |-> participants,
     writeback_record_type |-> shape.writeback_record_type]

Requests ==
    {Request(SampleShape, l) : l \in BoundedLists}
    \cup {Request(sh, l) : sh \in RequestShapes, l \in SampleLists}

(* ---------------------------------------------------------------------- *)
(* Specifications of one debate run                                        *)
(* ---------------------------------------------------------------------- *)

Init ==
    /\ InitFacade
    /\ request \in Requests
    /\ registry \in Registries
    /\ rpc = "start"
    /\ normalized = None
    /\ state = None
    /\ round = 0
    /\ turns = <<>>
    /\ rounds = <<>>
    /\ error_codes = <<>>
    /\ degraded = FALSE
    /\ final_packet = None
    /\ writeback_json_path = None
    /\ files = [n \in ArtifactNames |-> None]
    /\ record_files = {}
    /\ catalog = None
    /\ run_result = None
    /\ run_root = FALSE
    /\ replayed = None
    /\ IdleStore

\* One invocation of run_debate_mode whose every I/O operation succeeds.
Next ==
    \/ CheckLock(Worker)
    \/ SetLock(Worker)
    \/ NormalizedHome(Worker)
    \/ Intake(TRUE)
    \/ BeginRound
    \/ Turn
    \/ EndRound(TRUE)
    \/ AfterRounds(TRUE)
    \/ Judge
    \/ Packetize(TRUE)
    \/ PacketMarkdown(TRUE)
    \/ WritebackJson(TRUE)
    \/ WritebackMarkdown(TRUE)
    \/ AmendPacket(TRUE)
    \/ AmendMarkdown(TRUE)
    \/ IndexAndRespond(TRUE)
    \/ Join
    \/ ClearLock(Worker)
    \/ Replay

\* A filesystem or database operation of the worker fails.
IoFault ==
    \/ Intake(FALSE)
    \/ EndRound(FALSE)
    \/ AfterRounds(FALSE)
    \/ Packetize(FALSE)
    \/ PacketMarkdown(FALSE)
    \/ WritebackJson(FALSE)
    \/ WritebackMarkdown(FALSE)
    \/ AmendPacket(FALSE)
    \/ AmendMarkdown(FALSE)
    \/ IndexAndRespond(FALSE)

NextFault == Next \/ IoFault

Spec == Init /\ [][Next]_vars

\* The same run on a filesystem and database whose operations may fail.
SpecFault == Init /\ [][NextFault]_vars

(* ---------------------------------------------------------------------- *)
(* Claims about the DebateLock                                             *)
(* ---------------------------------------------------------------------- *)

\* The invocations between setting the lock and returning.
Holding == {p \in Invocations : pc[p] \in {"home", "worker", "clear"}}

\* C1: mutual exclusion of debates: at most one invocation is ever between
\* lock acquisition and lock release, so at most one worker runs.
C1_MutualExclusion == Cardinality(Holding) <= 1

\* C2: lock release on every exit path: whenever no invocation is between
\* setting the lock and returning (nor about to set it), the lock holds None,
\* so a later invocation is not rejected as "already running".
C2_LockReleasedOnEveryExit ==
    (\A p \in Invocations : pc[p] \in {"idle", "done"}) => lock = None

(* ---------------------------------------------------------------------- *)
(* Claims about one debate run                                             *)
(* ---------------------------------------------------------------------- *)

\* The transitions the state machine allows, as <<from, to>>.
AllowedTransitions ==
    {<<None, Some("Intake")>>,
     <<Some("Intake"), Some("Round1")>>,
     <<Some("Round1"), Some("Round2")>>,
     <<Some("Round2"), Some("Round3")>>,
     <<Some("Round3"), Some("Consensus")>>,
     <<Some("Consensus"), Some("Judge")>>,
     <<Some("Judge"), Some("Packetize")>>,
     <<Some("Packetize"), Some("Writeback")>>}

\* From the state the run is in, a request for any state outside the
\* allowed set fails with DEBATE_ERR_STATE and keeps the state; a request
\* inside it succeeds.
GuardRejectsIllegal ==
    \A next \in DebateStates :
        LET adv == advance_debate_state(state, next) IN
        IF <<state, Some(next)>> \in AllowedTransitions
        THEN adv.ok /\ adv.state = Some(next)
        ELSE ~adv.ok /\ adv.code = "DEBATE_ERR_STATE" /\ adv.state = state

SuccessReportsWriteback ==
    (run_result # None /\ run_result[1].ok) => run_result[1].state = "Writeback"

\* C3: every change of the run's state is one of the eight allowed
\* transitions; from every state the run reaches, any other requested
\* transition returns DEBATE_ERR_STATE and leaves the state unchanged; every
\* successful response reports state "Writeback".
C3_StateMachine ==
    /\ [][state' # state => <<state, state'>> \in AllowedTransitions]_vars
    /\ [](GuardRejectsIllegal)
    /\ [](SuccessReportsWriteback)

\* A run has answered successfully, having walked the whole machine.
C3_Witness ==
    /\ run_result # None
    /\ run_result[1].ok
    /\ state = Some("Writeback")

\* The orders the claims name.
RoleOrder == <<"Proponent", "Critic", "Analyst", "Synthesizer", "Judge">>

RoundOrder == <<"round-1", "round-2", "round-3">>

\* The turns of the completed rounds, as <<round index, turn index>>.
TurnSlots ==
    UNION {{<<i, j>> : j \in 1..Len(rounds[i].turns)} : i \in 1..Len(rounds)}

TurnAt(slot) == rounds[slot[1]].turns[slot[2]]

OkSlots == {slot \in TurnSlots : TurnAt(slot).status = "ok"}

FailedSlots == {slot \in TurnSlots : TurnAt(slot).status = "failed"}

\* The turns ts of round r are the first roles in order, each of that round
\* and each having seen exactly the rounds before r.
TurnsInOrder(ts, r) ==
    /\ Len(ts) <= Len(RoleOrder)
    /\ \A j \in 1..Len(ts) :
          /\ ts[j].role = RoleOrder[j]
          /\ ts[j].round = RoundOrder[r]
          /\ ts[j].previous_rounds = SubSeq(RoundOrder, 1, r - 1)
          /\ ts[j].status \in {"ok", "failed"}

TurnOrderInv ==
    /\ Len(rounds) <= Len(RoundOrder)
    /\ \A i \in 1..Len(rounds) :
          /\ rounds[i].round = RoundOrder[i]
          /\ Len(rounds[i].turns) = Len(RoleOrder)
          /\ TurnsInOrder(rounds[i].turns, i)
    /\ rpc \in {"turn", "round_end"} => TurnsInOrder(turns, Len(rounds) + 1)
    /\ rpc = "round_end" => Len(turns) = Len(RoleOrder)
    /\ rpc \notin {"start", "round_begin", "turn", "round_end", "returned"}
          => Cardinality(TurnSlots) = 15
    /\ (run_result # None
        /\ run_result[1].code \in {"OK", "DEBATE_ERR_ALL_TURNS_FAILED"})
          => Cardinality(TurnSlots) = 15

\* One step executes at most one turn, after those already executed, and
\* completes at most one round, after those already completed.
TurnsOneByOne ==
    /\ turns' # turns =>
          \/ turns' = <<>>
          \/ Len(turns') = Len(turns) + 1
             /\ SubSeq(turns', 1, Len(turns)) = turns
    /\ rounds' # rounds =>
          /\ Len(rounds') = Len(rounds) + 1
          /\ SubSeq(rounds', 1, Len(rounds)) = rounds
          /\ rounds'[Len(rounds')].turns = turns

\* C4: the rounds run in the order round-1, round-2, round-3; in each round
\* exactly five turns run in the order Proponent, Critic, Analyst,
\* Synthesizer, Judge (15 in all); every turn sees exactly the rounds
\* completed before its own; failed turns count like ok ones.
C4_TurnOrdering ==
    /\ [](TurnOrderInv)
    /\ [][TurnsOneByOne]_vars

\* A run that answered although some of its fifteen turns failed.
C4_Witness ==
    /\ run_result # None
    /\ run_result[1].ok
    /\ FailedSlots # {}
    /\ OkSlots # {}
    /\ Cardinality(TurnSlots) = 15

\* The packet carries the writeback:{path} evidence reference.
HasWritebackRef(packet) ==
    \E i \in 1..Len(packet.trace.evidence_refs) :
        packet.trace.evidence_refs[i].prefix = "writeback"

\* What exists on disk and in the catalog, in the order of the claim.
WriteOrder ==
    <<files["request.json"] # None,
      files["rounds/round-1.json"] # None,
      files["rounds/round-2.json"] # None,
      files["rounds/round-3.json"] # None,
      files["consensus.json"] # None,
      files["final-packet.json"] # None,
      files["final-packet.md"] # None,
      \E path \in record_files : path[4] = "json",
      \E path \in record_files : path[4] = "md",
      /\ files["final-packet.json"] # None
      /\ HasWritebackRef(files["final-packet.json"][1]),
      /\ files["final-packet.md"] # None
      /\ HasWritebackRef(files["final-packet.md"][1].markdown_of),
      catalog # None>>

\* C5: at every point of a run, and so wherever it stops, the artifacts that
\* exist are a prefix of: request.json, round-1.json, round-2.json,
\* round-3.json, consensus.json, final-packet.json, final-packet.md, the
\* writeback record (structured, then markdown), the amended
\* final-packet.json, the amended final-packet.md, the catalog rows.
C5_ArtifactWriteOrder ==
    \A i \in 1..(Len(WriteOrder) - 1) : WriteOrder[i + 1] => WriteOrder[i]

\* A run stopped by a failed write after the writeback record was stored:
\* the initial packet files exist, the amended ones and the catalog do not.
C5_Witness ==
    /\ run_result # None
    /\ run_result[1].code = "IO_ERROR"
    /\ record_files # {}
    /\ files["final-packet.json"] # None
    /\ ~HasWritebackRef(files["final-packet.json"][1])
    /\ catalog = None

\* The worker has returned from a run whose request passed normalization.
RunEnded == run_result # None /\ normalized # None

\* C6: on a filesystem and database that do not fail, a run whose request is
\* valid always attempts all 15 turns, whatever fails; it answers
\* successfully iff at least one turn is ok; a successful response is
\* degraded iff at least one turn failed, and its error_codes hold the
\* error code of every failed turn.
C6_TurnFailureTolerance ==
    RunEnded =>
        /\ Cardinality(TurnSlots) = 15
        /\ run_result[1].ok <=> OkSlots # {}
        /\ run_result[1].ok =>
              /\ run_result[1].degraded <=> FailedSlots # {}
              /\ \A slot \in FailedSlots :
                    /\ TurnAt(slot).error_code # None
                    /\ \E i \in 1..Len(run_result[1].error_codes) :
                          run_result[1].error_codes[i] = TurnAt(slot).error_code[1]

\* A successful, degraded response of a run with failed turns in more than
\* one round.
C6_Witness ==
    /\ RunEnded
    /\ run_result[1].ok
    /\ run_result[1].degraded
    /\ \E a, b \in FailedSlots : a[1] # b[1]
    /\ run_result[1].error_codes # <<>>

\* C7: on a filesystem that does not fail, once all 15 turns have run and
\* none is ok, the run never leaves state Round3 and never has a
\* consensus.json, a final-packet file, a writeback record or catalog rows;
\* when it returns, failure.json exists and the error is
\* DEBATE_ERR_ALL_TURNS_FAILED naming the artifacts root records/debates/{run_id}.
C7_AllTurnsFailed ==
    (Cardinality(TurnSlots) = 15 /\ OkSlots = {}) =>
        /\ state = Some("Round3")
        /\ files["consensus.json"] = None
        /\ files["final-packet.json"] = None
        /\ files["final-packet.md"] = None
        /\ final_packet = None
        /\ record_files = {}
        /\ writeback_json_path = None
        /\ catalog = None
        /\ run_result # None =>
              /\ ~run_result[1].ok
              /\ run_result[1].code = "DEBATE_ERR_ALL_TURNS_FAILED"
              /\ run_result[1].artifacts_root = <<"debates", generate_debate_run_id>>
              /\ files["failure.json"] # None
              /\ files["failure.json"][1].okTurns = 0
              /\ files["failure.json"][1].totalTurns = 15

\* A run whose fifteen turns all failed has returned.
C7_Witness ==
    /\ Cardinality(TurnSlots) = 15
    /\ OkSlots = {}
    /\ run_result # None
    /\ files["failure.json"] # None

\* |a|
Abs(a) == IF a < 0 THEN -a ELSE a

\* s thousandths is num/den rounded to three decimals: the nearest
\* thousandth, |s/1000 - num/den| <= 1/2000.
IsRounded(s, num, den) == 2 * Abs(s * den - 1000 * num) <= den

\* C8: with T = 15 turns of which K are ok (K >= 1), the packet's
\* consensus_score is K/T rounded to three decimals, its confidence_score is
\* clamp(K/T - 0.03*(T-K), 0, 1) rounded to three decimals, and both lie
\* in [0,1]; consensus.json holds the same scores.
C8_ConsensusArithmetic ==
    final_packet # None =>
        LET T == Cardinality(TurnSlots)
            K == Cardinality(OkSlots)
            \* K/T - 0.03*(T-K) = raw / (100*T)
            raw == 100 * K - 3 * (T - K) * T
            clamped == IF raw < 0 THEN 0 ELSE IF raw > 100 * T THEN 100 * T ELSE raw
            c == final_packet[1].consensus
        IN  /\ T = 15
            /\ K \in 1..15
            /\ c.consensus_score \in 0..1000
            /\ c.confidence_score \in 0..1000
            /\ IsRounded(c.consensus_score, K, T)
            /\ IsRounded(c.confidence_score, clamped, 100 * T)
            /\ files["consensus.json"] = Some(c)

\* A packet for K = 10: 10/15 rounds up to 0.667, and the confidence
\* 10/15 - 0.15 to 0.517.
C8_Witness ==
    /\ final_packet # None
    /\ Cardinality(OkSlots) = 10
    /\ final_packet[1].consensus.consensus_score = 667
    /\ final_packet[1].consensus.confidence_score = 517

\* The packet has five participants, one per role in role order, each with
\* a non-empty provider and model.
FiveParticipantsInOrder(packet) ==
    /\ Len(packet.participants) = 5
    /\ \A i \in 1..5 :
          /\ packet.participants[i].role = RoleOrder[i]
          /\ Trim(packet.participants[i].model_provider) # ""
          /\ Trim(packet.participants[i].model_name) # ""

\* C9: whatever the request's participants list, every Final Packet a run
\* builds passes validate_final_packet, before and after the writeback
\* amendment, and lists exactly five participants, one per role, in the
\* order Proponent, Critic, Analyst, Synthesizer, Judge, each with a
\* non-empty provider and model; the files and the response carry it.
C9_PacketValidity ==
    /\ final_packet # None =>
          /\ validate_final_packet(final_packet[1]).ok
          /\ FiveParticipantsInOrder(final_packet[1])
    /\ files["final-packet.json"] # None =>
          /\ validate_final_packet(files["final-packet.json"][1]).ok
          /\ FiveParticipantsInOrder(files["final-packet.json"][1])
    /\ (run_result # None /\ run_result[1].ok) =>
          /\ validate_final_packet(run_result[1].final_packet).ok
          /\ FiveParticipantsInOrder(run_result[1].final_packet)
          /\ HasWritebackRef(run_result[1].final_packet)
    /\ (run_result # None /\ ~run_result[1].ok) =>
          run_result[1].code # "DEBATE_ERR_PACKET"

\* An amended packet of a request whose list names an unknown role and a
\* Judge on a disabled provider with a blank model name.
C9_Witness ==
    /\ final_packet # None
    /\ HasWritebackRef(final_packet[1])
    /\ Len(request.participants) = 2
    /\ \E i \in 1..2 : request.participants[i].role = Some("Moderator")
    /\ \E i \in 1..2 : request.participants[i].model_name = Some("  ")
    /\ registry = CustomRegistry

\* The entries of the request that parse to `role`, by index.
EntriesFor(role) ==
    {i \in 1..Len(request.participants) :
        parse_debate_role(UnwrapOr(request.participants[i].role, "")) = Some(role)}

Minimum(S) == CHOOSE x \in S : \A y \in S : x <= y

Maximum(S) == CHOOSE x \in S : \A y \in S : x >= y

\* The normalized participant of `role` has the provider and model that the
\* request's entry i yields.
TakenFrom(role, i) ==
    LET got  == CHOOSE q \in SeqToSet(normalized[1].participants) : q.role = role
        want == RuntimeParticipant(role, request.participants[i], registry)
    IN  /\ got.model_provider = want.model_provider
        /\ got.model_name = want.model_name

\* C10 as stated: of several entries that parse to one role, the first in
\* input order gives the role's normalized participant.
C10_FirstOccurrenceWins ==
    normalized # None =>
        \A role \in SeqToSet(RoleOrder) :
            Cardinality(EntriesFor(role)) >= 2 =>
                TakenFrom(role, Minimum(EntriesFor(role)))

\* C10: of several entries that parse to one role, the last in input order
\* gives the role's normalized participant (last occurrence wins); earlier
\* entries for the role do not change its provider or model.
C10_LastOccurrenceWins ==
    normalized # None =>
        \A role \in SeqToSet(RoleOrder) :
            Cardinality(EntriesFor(role)) >= 2 =>
                TakenFrom(role, Maximum(EntriesFor(role)))

\* A normalized request with two entries for one role that yield different
\* participants.
C10_Witness ==
    /\ normalized # None
    /\ \E role \in SeqToSet(RoleOrder) :
          /\ Cardinality(EntriesFor(role)) >= 2
          /\ ~TakenFrom(role, Minimum(EntriesFor(role)))
          /\ TakenFrom(role, Maximum(EntriesFor(role)))

\* The provider string of the request's entry i (a missing one is "local").
ProviderOf(i) == UnwrapOr(request.participants[i].model_provider, "local")

\* The canonical provider id of the claims: trimmed, lowercased, aliases
\* codex and chatgpt mapped.
CanonicalId(i) ==
    LET t == TrimLower(ProviderOf(i)) IN
    IF t = "codex" THEN "codex-cli"
    ELSE IF t = "chatgpt" THEN "chatgpt-web"
    ELSE t

\* The entries of the request whose role parses, by index.
RoleEntries ==
    UNION {EntriesFor(role) : role \in SeqToSet(RoleOrder)}

\* The role entry i parses to.
RoleOfEntry(i) == CHOOSE role \in SeqToSet(RoleOrder) : i \in EntriesFor(role)

\* The provider of the normalized participant of entry i's role.
NormalizedProvider(i) ==
    (CHOOSE q \in SeqToSet(normalized[1].participants) :
         q.role = RoleOfEntry(i)).model_provider

Registered(i) == CanonicalId(i) \in DOMAIN registry /\ registry[CanonicalId(i)] # None

Enabled(i) == Registered(i) /\ registry[CanonicalId(i)][1].enabled

Warned(code) ==
    \E k \in 1..Len(normalized[1].warning_codes) :
        normalized[1].warning_codes[k] = code

\* The fallback rule for the entries in `scope`: an entry whose canonical
\* provider is none of openai, gemini, claude, local warns UNKNOWN when the
\* provider is not registered and DISABLED when it is registered but
\* disabled, and, being the entry that decides its role, yields provider
\* local; a registered enabled provider is kept.
FallbackRule(scope) ==
    \A i \in scope :
        LET decides == (i = Maximum(EntriesFor(RoleOfEntry(i)))) IN
        CanonicalId(i) \notin {"openai", "gemini", "claude", "local"} =>
            /\ ~Registered(i) =>
                  /\ Warned("DEBATE_WARN_PROVIDER_UNKNOWN_FALLBACK_LOCAL")
                  /\ decides => NormalizedProvider(i) = "local"
            /\ (Registered(i) /\ ~Enabled(i)) =>
                  /\ Warned("DEBATE_WARN_PROVIDER_DISABLED_FALLBACK_LOCAL")
                  /\ decides => NormalizedProvider(i) = "local"
            /\ (Enabled(i) /\ decides) => NormalizedProvider(i) = CanonicalId(i)

\* C11 as stated: the fallback rule holds for every entry whose role parses,
\* an entry whose provider string is empty or blank included.
C11_FallbackEveryProvider ==
    normalized # None => FallbackRule(RoleEntries)

\* C11: the fallback rule holds for every entry whose role parses and whose
\* provider string is not blank; a blank provider string yields provider
\* local without any fallback warning.
C11_ProviderFallback ==
    normalized # None =>
        /\ FallbackRule({i \in RoleEntries : Trim(ProviderOf(i)) # ""})
        /\ \A i \in RoleEntries :
              (Trim(ProviderOf(i)) = "" /\ i = Maximum(EntriesFor(RoleOfEntry(i))))
                  => NormalizedProvider(i) = "local"
        /\ (\A i \in RoleEntries : Trim(ProviderOf(i)) = "") =>
              /\ ~Warned("DEBATE_WARN_PROVIDER_UNKNOWN_FALLBACK_LOCAL")
              /\ ~Warned("DEBATE_WARN_PROVIDER_DISABLED_FALLBACK_LOCAL")

\* A normalized request with one entry on a disabled provider and one on an
\* unregistered provider, both fallen back to local with their warnings.
C11_Witness ==
    /\ normalized # None
    /\ \E i \in RoleEntries : Registered(i) /\ ~Enabled(i)
    /\ \E i \in RoleEntries : ~Registered(i) /\ CanonicalId(i) = "zzz"
    /\ Warned("DEBATE_WARN_PROVIDER_UNKNOWN_FALLBACK_LOCAL")
    /\ Warned("DEBATE_WARN_PROVIDER_DISABLED_FALLBACK_LOCAL")

\* The positions of the writeback:{path} entries of a packet's evidence.
WritebackRefs(packet) ==
    {i \in 1..Len(packet.trace.evidence_refs) :
        packet.trace.evidence_refs[i].prefix = "writeback"}

\* C12: after every successful run the final-packet.json on disk holds
\* exactly one writeback: evidence entry; its path is the response's
\* writeback_json_path and names an existing structured record file under
\* records/decisions or records/worklogs; the packet on disk is the packet
\* of the response.
C12_WritebackLinkage ==
    (run_result # None /\ run_result[1].ok) =>
        /\ files["final-packet.json"] # None
        /\ LET disk == files["final-packet.json"][1]
               refs == WritebackRefs(disk)
           IN  /\ Cardinality(refs) = 1
               /\ run_result[1].writeback_json_path # None
               /\ \A i \in refs :
                     LET path == disk.trace.evidence_refs[i].path IN
                     /\ path = run_result[1].writeback_json_path[1]
                     /\ path \in record_files
                     /\ path[1] = "records"
                     /\ path[2] \in {"decisions", "worklogs"}
                     /\ path[4] = "json"
               /\ disk = run_result[1].final_packet

\* A successful run that was asked to write back an "idea" for a planning
\* debate: the record is a worklog.
C12_Witness ==
    /\ run_result # None
    /\ run_result[1].ok
    /\ request.writeback_record_type = Some("idea")
    /\ run_result[1].writeback_json_path[1][2] = "worklogs"

\* A replay was asked for the run id of the run's successful response.
ReplayedAfterSuccess ==
    /\ replayed # None
    /\ run_result # None
    /\ run_result[1].ok
    /\ replayed[1].run_id = run_result[1].run_id

\* C13: the replay of a run that returned a successful response, nothing
\* having changed since, succeeds with files_complete, exactly three round
\* artifacts, a writeback record, sql_indexed and no issue: the catalog
\* counts 15 turns, as the round files do, and as many actions as the
\* packet has next_actions.
C13_ReplayAfterSuccess ==
    ReplayedAfterSuccess =>
        /\ replayed[1].ok
        /\ replayed[1].files_complete
        /\ Len(replayed[1].rounds) = 3
        /\ replayed[1].writeback_record # None
        /\ replayed[1].sql_indexed
        /\ replayed[1].issues = <<>>
        /\ catalog # None
        /\ catalog[1].turns = 15
        /\ catalog[1].turns =
              Len(files["rounds/round-1.json"][1].turns)
              + Len(files["rounds/round-2.json"][1].turns)
              + Len(files["rounds/round-3.json"][1].turns)
        /\ catalog[1].actions = Len(files["final-packet.json"][1].next_actions)

\* The replay of a successful run some of whose turns had failed.
C13_Witness ==
    /\ ReplayedAfterSuccess
    /\ replayed[1].ok
    /\ run_result[1].degraded
    /\ replayed[1].issues = <<>>

\* The six files of a complete run directory.
SixFiles ==
    {"request.json", "consensus.json", "final-packet.json",
     "rounds/round-1.json", "rounds/round-2.json", "rounds/round-3.json"}

\* C14: the replay of a run whose directory exists, however far the run
\* got, returns a consistency report whose files_complete is true iff the
\* six files all exist and whose issues name every missing file; only a
\* missing run directory gives DEBATE_ERR_NOT_FOUND.
C14_ReplayOfPartialRun ==
    replayed # None =>
        LET r == replayed[1] IN
        IF r.run_id = generate_debate_run_id /\ run_root
        THEN /\ r.ok
             /\ r.files_complete <=> (\A f \in SixFiles : files[f] # None)
             /\ \A f \in SixFiles :
                   files[f] = None =>
                       \E k \in 1..Len(r.issues) :
                           /\ r.issues[k].issue = "Missing round artifact"
                           /\ r.issues[k].of = f
        ELSE /\ ~r.ok
             /\ r.code = "DEBATE_ERR_NOT_FOUND"

(* ---------------------------------------------------------------------- *)
(* The record store: files under records/ and the search index             *)
(* ---------------------------------------------------------------------- *)

\* The variables of the debate run, which the record commands leave alone.
debate_vars ==
    <<request, registry, rpc, normalized, state, round, turns, rounds,
      error_codes, degraded, final_packet, writeback_json_path, files,
      record_files, catalog, run_result, run_root, replayed>>

\* A path is <<"records", directory, file stem, extension>>; the empty
\* string, which unwrap_or_default() gives for a missing path, is <<>>.
EmptyPath == <<>>

\* Path::with_extension
with_extension(path, ext) == [path EXCEPT ![4] = ext]

\* Path::file_stem
file_stem(path) == path[3]

\* fs::write followed by fs::rename, on a map from path to content.
WriteFile(d, path, content) ==
    [q \in (DOMAIN d) \cup {path} |-> IF q = path THEN content ELSE d[q]]

\* fs::remove_file on a map from path to content.
RemoveFile(d, path) == [q \in (DOMAIN d) \ {path} |-> d[q]]

\* slugify, on the titles of the model.
slugify(value) ==
    CASE value = "Plan"     -> "plan"
      [] value = "Untitled" -> "untitled"
      [] value = ""         -> "untitled"
      [] OTHER              -> value

\* generate_filename: <stamp>_<record_type>_<slug>, the stamp read from the
\* wall clock.
generate_filename(record_type, title) ==
    <<clock, record_type, slugify(title)>>

\* The json!({..}) value that upsert_record and persist_record_to_files
\* write into the structured file.
PersistedValue(record) ==
    [type |-> record.record_type, title |-> record.title,
     notion_page_id |-> record.notion_page_id,
     final_body |-> record.final_body,
     notion_sync_status |-> record.notion_sync_status,
     notion_error |-> record.notion_error,
     notion_last_edited_time |-> record.notion_last_edited_time,
     notion_last_synced_hash |-> record.notion_last_synced_hash]

\* render_markdown
render_markdown(record) == [markdown_of |-> PersistedValue(record)]

\* record_from_value
record_from_value(value, json_path, md_path) ==
    [record_type |-> normalize_record_type(value.type),
     title |-> value.title,
     notion_page_id |-> value.notion_page_id,
     final_body |-> value.final_body,
     notion_sync_status |-> value.notion_sync_status,
     notion_error |-> value.notion_error,
     notion_last_edited_time |-> value.notion_last_edited_time,
     notion_last_synced_hash |-> value.notion_last_synced_hash,
     json_path |-> json_path,
     md_path |-> md_path]

\* persist_record_to_files: the structured file, then the markdown file.
persist_record_to_files(d, record, json_path, md_path) ==
    WriteFile(WriteFile(d, json_path, PersistedValue(record)),
              md_path, render_markdown(record))

\* The structured record files of a disk.
JsonFiles(d) == {q \in DOMAIN d : q[4] = "json"}

RECURSIVE SetToSeq(_)
SetToSeq(S) ==
    IF S = {} THEN <<>>
    ELSE LET x == CHOOSE y \in S : TRUE IN <<x>> \o SetToSeq(S \ {x})

\* load_record_by_json_path, for a path that exists.
load_record_by_json_path(d, path) ==
    record_from_value(d[path], Some(path), Some(with_extension(path, "md")))

\* load_records: one Record per *.json file of the record directories.
load_records(d) ==
    LET paths == SetToSeq(JsonFiles(d)) IN
    [i \in 1..Len(paths) |-> load_record_by_json_path(d, paths[i])]

\* The values bound to the INSERT INTO records_fts statement.
FtsRow(record) ==
    [json_path |-> UnwrapOr(record.json_path, EmptyPath),
     md_path |-> UnwrapOr(record.md_path, EmptyPath),
     record_type |-> record.record_type,
     title |-> record.title,
     final_body |-> record.final_body,
     notion_sync_status |-> record.notion_sync_status]

\* DELETE FROM records_fts WHERE json_path = ?
DeleteRows(rows, json_path) ==
    [r \in {x \in DOMAIN rows : x.json_path # json_path} |-> rows[r]]

\* INSERT INTO records_fts: the table has no key, a row is added.
InsertRow(rows, row) == rows (+) SetToBag({row})

\* upsert_index_record_if_exists
upsert_index_record_if_exists(db, rows, record) ==
    IF ~db THEN rows
    ELSE InsertRow(IF record.json_path # None
                   THEN DeleteRows(rows, record.json_path[1])
                   ELSE rows,
                   FtsRow(record))

\* Mutant: the index row of a deleted path is kept.
delete_index_record_if_exists_Keep(db, rows, json_path) == rows

\* delete_index_record_if_exists
delete_index_record_if_exists(db, rows, json_path) ==
    IF ~db THEN rows ELSE DeleteRows(rows, json_path)

\* Mutant: the transaction of rebuild_index does not empty the table.
TxDelete_KeepRows(rows) == rows

\* DELETE FROM records_fts, inside the transaction of rebuild_index.
TxDelete(rows) == EmptyBag

\* The rows of the transaction after its DELETE and its first n INSERTs.
RECURSIVE TxInsert(_, _, _)
TxInsert(rows, records, n) ==
    IF n = 0 THEN rows
    ELSE InsertRow(TxInsert(rows, records, n - 1), FtsRow(records[n]))

\* rebuild_index.  fail_at is None when every statement succeeds, Some(0)
\* when the connection cannot be opened, and Some(k) when the statement
\* after the first k - 1 INSERTs fails (the last values of k are the meta
\* rows and the commit); a failed transaction is rolled back on drop.
rebuild_index(db, rows, meta, records, fail_at) ==
    IF fail_at = None
    THEN [ok |-> TRUE, count |-> Len(records), db |-> TRUE,
          rows |-> TxInsert(TxDelete(rows), records, Len(records)),
          meta |-> Some([recordCount |-> ToString(Len(records))])]
    ELSE IF fail_at[1] = 0
    THEN [ok |-> FALSE, count |-> 0, db |-> db, rows |-> rows, meta |-> meta]
    ELSE [ok |-> FALSE, count |-> 0, db |-> TRUE, rows |-> rows, meta |-> meta]

\* The history of the commands run since the last successful
\* rebuild_search_index.
Noted(op) ==
    /\ since_rebuild' =
           IF since_rebuild = None THEN None
           ELSE Some(since_rebuild[1] /\ op \in {"upsert_record", "delete_record"})
    /\ UNCHANGED <<settings_vars, cli_vars, step_vars, creations>>

\* The model follows a store of at most MaxRecords structured files (and
\* `extra` more, for the file a failed removal leaves), one file without
\* its twin and one index row more than there are records.
WithinBounds(d, rows, extra) ==
    /\ Cardinality(JsonFiles(d)) <= MaxRecords + extra
    /\ Cardinality(DOMAIN d) <= 2 * (MaxRecords + extra) + 1
    /\ BagCardinality(rows) <= MaxRecords + 1

\* Inputs of the record commands.
RecordTypeInputs == {" Decision ", "bogus"}

TitleInputs == {"Plan"}

\* The path of a structured record file that does not exist.
GonePath == <<"records", "ideas", <<0, "idea", "gone">>, "json">>

JsonPathInputs == JsonFiles(store_files) \cup {GonePath}

PreviousJsonPathInputs == {None} \cup {Some(q) : q \in JsonPathInputs}

\* Mutant: a fresh file stem even when the prior path exists.
BaseName_AlwaysFresh(d, existing_path, record_type, title) ==
    generate_filename(record_type, title)

\* base_name of upsert_record: the stem of the prior file when it exists.
BaseName(d, existing_path, record_type, title) ==
    IF existing_path # None /\ existing_path[1] \in DOMAIN d
    THEN file_stem(existing_path[1])
    ELSE generate_filename(record_type, title)

\* Mutant: the record is filed under the directory of notes whatever its
\* type.
TargetDir_Other(record_type) == "other"

\* target_subdir of upsert_record
TargetDir(record_type) == record_dir_by_type(record_type)

\* upsert_record.  fault names the one operation of the call that fails,
\* "none" when all succeed; the writes return the error, the removals and
\* the index commands have their error dropped (let _ =).
UpsertRecord(payload_type, payload_title, previous_json_path, fault) ==
    LET record_type   == normalize_record_type(payload_type)
        title         == IF Trim(payload_title) = "" THEN "Untitled"
                         ELSE Trim(payload_title)
        target_dir    == TargetDir(record_type)
        existing_path == previous_json_path
        base_name     == BaseName(store_files, existing_path, record_type, title)
        json_path     == <<"records", target_dir, base_name, "json">>
        md_path       == <<"records", target_dir, base_name, "md">>
        existing_value == IF /\ existing_path # None
                             /\ existing_path[1] \in JsonFiles(store_files)
                          THEN Some(store_files[existing_path[1]])
                          ELSE None
        persisted     == [type |-> record_type, title |-> title,
                          notion_page_id |-> None,
                          final_body |-> "",
                          notion_sync_status |-> "SUCCESS",
                          notion_error |-> None,
                          notion_last_edited_time |->
                              IF existing_value # None
                              THEN existing_value[1].notion_last_edited_time
                              ELSE None,
                          notion_last_synced_hash |->
                              IF existing_value # None
                              THEN existing_value[1].notion_last_synced_hash
                              ELSE None]
        record        == record_from_value(persisted, Some(json_path),
                                           Some(md_path))
        after_json    == WriteFile(store_files, json_path, persisted)
        after_md      == WriteFile(after_json, md_path, render_markdown(record))
        moved         == existing_path # None /\ existing_path[1] # json_path
        old_path      == existing_path[1]
        old_md        == with_extension(old_path, "md")
        no_old_json   == IF fault = "remove_old" THEN after_md
                         ELSE RemoveFile(after_md, old_path)
        no_old_md     == IF fault = "remove_old_md" THEN no_old_json
                         ELSE RemoveFile(no_old_json, old_md)
        after_remove  == IF moved THEN no_old_md ELSE after_md
        rows_deleted  == IF moved /\ fault # "index_delete"
                         THEN delete_index_record_if_exists(index_db, records_fts,
                                                            old_path)
                         ELSE records_fts
        rows_upserted == IF fault = "index_upsert" THEN rows_deleted
                         ELSE upsert_index_record_if_exists(index_db,
                                                            rows_deleted, record)
        next_files    == IF fault = "write_json" THEN store_files
                         ELSE IF fault = "write_md" THEN after_json
                         ELSE after_remove
        returns_ok    == fault \notin {"write_json", "write_md"}
    IN  /\ fault \in {"remove_old", "remove_old_md"} =>
               moved /\ old_path \in DOMAIN store_files
        /\ fault = "index_delete" => moved /\ index_db
        /\ fault = "index_upsert" => index_db
        /\ WithinBounds(next_files, rows_upserted,
                        IF fault = "remove_old" THEN 1 ELSE 0)
        /\ store_files' = next_files
        /\ records_fts' = IF returns_ok THEN rows_upserted ELSE records_fts
        /\ store_result' =
               Some([op |-> "upsert_record", ok |-> returns_ok,
                     record |-> IF returns_ok THEN Some(record) ELSE None,
                     payload_type |-> payload_type,
                     previous_json_path |-> previous_json_path,
                     prior_existed |-> /\ existing_path # None
                                       /\ existing_path[1] \in DOMAIN store_files,
                     fault |-> fault])
        /\ Noted("upsert_record")
        /\ UNCHANGED <<facade_vars, debate_vars, index_db, index_meta>>

\* delete_record.  The two file removals return their error (?), the
\* index command has its error dropped.
DeleteRecord(json_path, fault) ==
    LET path     == json_path
        md_path  == with_extension(path, "md")
        no_json  == RemoveFile(store_files, path)
        no_md    == RemoveFile(no_json, md_path)
        stopped  == fault \in {"remove_json", "remove_md"}
    IN  /\ fault = "remove_json" => path \in DOMAIN store_files
        /\ fault = "remove_md" => md_path \in DOMAIN store_files
        /\ fault = "index_delete" => index_db
        /\ store_files' = IF fault = "remove_json" THEN store_files
                          ELSE IF fault = "remove_md" THEN no_json
                          ELSE no_md
        /\ records_fts' = IF stopped \/ fault = "index_delete" THEN records_fts
                          ELSE delete_index_record_if_exists(index_db,
                                                             records_fts, path)
        /\ store_result' =
               Some([op |-> "delete_record", ok |-> ~stopped,
                     json_path |-> json_path, fault |-> fault])
        /\ Noted("delete_record")
        /\ UNCHANGED <<facade_vars, debate_vars, index_db, index_meta>>

\* rebuild_search_index: rebuild_index over load_records.
RebuildSearchIndex(fail_at) ==
    LET records == load_records(store_files)
        rebuilt == rebuild_index(index_db, records_fts, index_meta, records,
                                 fail_at)
    IN  /\ fail_at # None => fail_at[1] \in 0..(Len(records) + 3)
        /\ index_db' = rebuilt.db
        /\ records_fts' = rebuilt.rows
        /\ index_meta' = rebuilt.meta
        /\ store_result' =
               Some([op |-> "rebuild_index", ok |-> rebuilt.ok,
                     count |-> rebuilt.count, given |-> Len(records)])
        /\ since_rebuild' = IF rebuilt.ok THEN Some(TRUE) ELSE since_rebuild
        /\ UNCHANGED <<facade_vars, debate_vars, store_files, settings_vars, cli_vars,
                       step_vars, creations>>

(* ---------------------------------------------------------------------- *)
(* Notion sync: the commands that rewrite or create record files           *)
(* ---------------------------------------------------------------------- *)

\* NotionRemoteRecord, as far as the sync commands use it.
RemoteRecord(page_id, record_type, final_body, last_edited_time) ==
    [page_id |-> page_id, record_type |-> record_type, title |-> "Plan",
     final_body |-> final_body, last_edited_time |-> last_edited_time]

\* Page ids are numbers.  The page ids that the local records carry.
LinkedPages(d) ==
    {d[q].notion_page_id[1] : q \in {x \in JsonFiles(d) : d[x].notion_page_id # None}}

\* The page id Notion gives a page it creates: one that no local record
\* carries.
NewPageId(d) ==
    CHOOSE n \in 10..(10 + Cardinality(LinkedPages(d))) :
        /\ n \notin LinkedPages(d)
        /\ \A m \in 10..(n - 1) : m \in LinkedPages(d)

\* normalize_conflict_strategy
normalize_conflict_strategy(value) ==
    LET given == TrimLower(UnwrapOr(value, "manual")) IN
    IF given \in {"local", "local_wins"} THEN "local_wins"
    ELSE IF given \in {"notion", "notion_wins", "remote_wins"} THEN "notion_wins"
    ELSE "manual"

\* record_sync_hash: the fields that are hashed.
record_sync_hash(record) ==
    <<record.record_type, record.title, record.final_body>>

\* Mutant: no record is taken to have changed.
local_has_changed_since_sync_Never(record) == FALSE

\* local_has_changed_since_sync
local_has_changed_since_sync(record) ==
    IF record.notion_last_synced_hash = None THEN TRUE
    ELSE record_sync_hash(record) # record.notion_last_synced_hash[1]

\* Mutant: every page is taken to have changed.
remote_has_changed_Always(record, remote) == TRUE

\* remote_has_changed
remote_has_changed(record, remote) ==
    LET current  == Trim(UnwrapOr(remote.last_edited_time, ""))
        previous == Trim(UnwrapOr(record.notion_last_edited_time, ""))
    IN  IF current = "" THEN FALSE ELSE previous # current

\* Mutant: the hash of the last sync is not refreshed.
mark_record_synced_KeepHash(record, remote_last_edited_time) ==
    [record EXCEPT
        !.notion_sync_status = "SUCCESS",
        !.notion_error = None,
        !.notion_last_edited_time =
            IF /\ remote_last_edited_time # None
               /\ Trim(remote_last_edited_time[1]) # ""
            THEN remote_last_edited_time
            ELSE @]

\* mark_record_synced
mark_record_synced(record, remote_last_edited_time) ==
    LET stamped == [record EXCEPT
                       !.notion_sync_status = "SUCCESS",
                       !.notion_error = None,
                       !.notion_last_edited_time =
                           IF /\ remote_last_edited_time # None
                              /\ Trim(remote_last_edited_time[1]) # ""
                           THEN remote_last_edited_time
                           ELSE @]
    IN  [stamped EXCEPT !.notion_last_synced_hash = Some(record_sync_hash(stamped))]

\* build_sync_result
build_sync_result(json_path, record, action, conflict) ==
    [json_path |-> json_path,
     notion_page_id |-> record.notion_page_id,
     notion_sync_status |-> record.notion_sync_status,
     notion_error |-> record.notion_error,
     action |-> action,
     conflict |-> conflict]

\* record_from_remote: a Record without json_path and md_path.
record_from_remote(remote) ==
    [record_type |-> normalize_record_type(remote.record_type),
     title |-> IF Trim(remote.title) = "" THEN "Untitled" ELSE remote.title,
     notion_page_id |-> Some(remote.page_id),
     final_body |-> remote.final_body,
     notion_sync_status |-> "SUCCESS",
     notion_error |-> None,
     notion_last_edited_time |-> remote.last_edited_time,
     notion_last_synced_hash |-> None,
     json_path |-> None,
     md_path |-> None]

\* apply_remote_to_local_record
apply_remote_to_local_record(local, remote) ==
    [local EXCEPT
        !.record_type = normalize_record_type(remote.record_type),
        !.title = IF Trim(remote.title) = "" THEN local.title ELSE remote.title,
        !.final_body = remote.final_body,
        !.notion_page_id = Some(remote.page_id),
        !.notion_error = None]

\* Mutant: the generated stem is used whether or not its file exists.
UniqueStem_Base(d, dir, base, idx) == base

\* generate_unique_record_paths: <base>.json, or <base>_<idx>.json for the
\* first idx whose file does not exist.
RECURSIVE UniqueStem(_, _, _, _)
UniqueStem(d, dir, base, idx) ==
    LET stem == IF idx = 0 THEN base ELSE Append(base, idx) IN
    IF <<"records", dir, stem, "json">> \in DOMAIN d
    THEN UniqueStem(d, dir, base, idx + 1)
    ELSE stem

generate_unique_record_paths(d, record_type, title) ==
    LET dir  == record_dir_by_type(record_type)
        stem == UniqueStem(d, dir, generate_filename(record_type, title), 0)
    IN  <<"records", dir, stem, "json">>

\* resolve_record_paths
resolve_record_paths(d, record) ==
    IF record.json_path # None /\ record.json_path[1] # EmptyPath
    THEN record.json_path[1]
    ELSE generate_unique_record_paths(d, record.record_type, record.title)

\* The page id of a record, trimmed and not empty (no page id of the model
\* is blank).
LinkedPage(record) == record.notion_page_id

\* What Notion and the file system do during one command: remote is the
\* page that Notion holds for a page id, unreachable the pages whose fetch
\* fails, gone the pages whose PATCH answers 404, rejects the record
\* files whose last
\* request Notion answers with an error, unwritable the files that cannot
\* be written, pushed_at the last_edited_time of a page that a request of
\* the command has written.
Environment(remote, unreachable, gone, rejects, unwritable, pushed_at) ==
    [remote |-> remote, unreachable |-> unreachable, gone |-> gone,
     rejects |-> rejects, unwritable |-> unwritable, pushed_at |-> pushed_at]

\* notion_fetch_remote_record(..).ok()
notion_fetch_remote_record(env, page_id) ==
    IF page_id \in DOMAIN env.remote /\ page_id \notin env.unreachable
    THEN Some(env.remote[page_id]) ELSE None

\* notion_upsert_record: PATCH the linked page, POST a new page when the
\* record has none or the PATCH answers 404.
notion_upsert_record(d, record, json_path, env) ==
    LET page_id  == LinkedPage(record)
        patch    == IF page_id # None
                    THEN <<[method |-> "PATCH", page_id |-> page_id[1],
                            json_path |-> json_path]>>
                    ELSE <<>>
        patched  == page_id # None /\ page_id[1] \notin env.gone
        post     == <<[method |-> "POST", page_id |-> NewPageId(d),
                       json_path |-> json_path]>>
        requests == IF patched THEN patch ELSE patch \o post
    IN  IF json_path \in env.rejects
        THEN [ok |-> FALSE, requests |-> requests, info |-> None]
        ELSE [ok |-> TRUE, requests |-> requests,
              info |-> Some([page_id |-> IF patched THEN page_id[1]
                                         ELSE NewPageId(d),
                             last_edited_time |-> Some(env.pushed_at)])]

\* persist_record_to_files where a file may be unwritable: the structured
\* file, then the markdown file.
TryPersist(d, record, json_path, md_path, env) ==
    IF json_path \in env.unwritable THEN [ok |-> FALSE, files |-> d]
    ELSE IF md_path \in env.unwritable
    THEN [ok |-> FALSE, files |-> WriteFile(d, json_path, PersistedValue(record))]
    ELSE [ok |-> TRUE,
          files |-> persist_record_to_files(d, record, json_path, md_path)]

\* A function of the sync commands returns the files, the index rows and
\* the requests sent so far, with Ok(result) or Err.
Returned(written, rows, requests, returned) ==
    [files |-> written, rows |-> rows, requests |-> requests,
     ok |-> returned # None, result |-> returned]

\* persist_record_to_files(..)?, let _ = upsert_index_record_if_exists(..),
\* Ok(build_sync_result(..)): the end of every branch that keeps the
\* record local.
PersistAndReport(st, db, record, json_path, md_path, action, conflict, env) ==
    LET report(written) ==
            IF ~written.ok
            THEN Returned(written.files, st.rows, st.requests, None)
            ELSE Returned(written.files,
                          upsert_index_record_if_exists(db, st.rows, record),
                          st.requests,
                          Some(build_sync_result(json_path, record, action,
                                                 conflict)))
    IN  report(TryPersist(st.files, record, json_path, md_path, env))

\* push_local_record_to_notion
push_local_record_to_notion(st, db, record, json_path, md_path, action, env) ==
    LET failed == [record EXCEPT !.notion_sync_status = "FAILED",
                                 !.notion_error = Some("Notion API error")]
        pushed(sent, after) ==
            IF sent.ok
            THEN PersistAndReport(
                     after, db,
                     mark_record_synced(
                         [record EXCEPT
                             !.notion_page_id = Some(sent.info[1].page_id)],
                         sent.info[1].last_edited_time),
                     json_path, md_path, action, FALSE, env)
            ELSE Returned(TryPersist(after.files, failed, json_path, md_path,
                                     env).files,
                          upsert_index_record_if_exists(db, after.rows, failed),
                          after.requests,
                          Some(build_sync_result(json_path, failed,
                                                 "push_failed", FALSE)))
        sending(sent) == pushed(sent, [st EXCEPT !.requests = @ \o sent.requests])
    IN  sending(notion_upsert_record(st.files, record, json_path, env))

\* The record of the conflict_manual branches.
ConflictRecord(record, message) ==
    [record EXCEPT !.notion_sync_status = "CONFLICT",
                   !.notion_error = Some(message)]

\* The record of the branches that take the remote page.
PulledRecord(record, remote) ==
    mark_record_synced(apply_remote_to_local_record(record, remote),
                       remote.last_edited_time)

\* sync_record_to_notion_internal
sync_record_to_notion_internal(st, db, json_path, conflict_strategy, env) ==
    LET path    == json_path
        md_path == with_extension(path, "md")
        decided(record, both, remote_meta) ==
            IF both /\ conflict_strategy = "manual"
            THEN PersistAndReport(
                     st, db,
                     ConflictRecord(record,
                         "Conflict detected: local and Notion both changed since last sync."),
                     path, md_path, "conflict_manual", TRUE, env)
            ELSE IF both /\ conflict_strategy = "notion_wins"
            THEN PersistAndReport(st, db, PulledRecord(record, remote_meta[1]),
                                  path, md_path,
                                  "pulled_notion_conflict_notion_wins", FALSE,
                                  env)
            ELSE push_local_record_to_notion(st, db, record, path, md_path,
                                             "pushed_local", env)
        fetched(record, remote_meta) ==
            decided(record,
                    /\ remote_meta # None
                    /\ local_has_changed_since_sync(record)
                    /\ remote_has_changed(record, remote_meta[1]),
                    remote_meta)
        linked(record, page_id) ==
            fetched(record,
                    IF page_id # None
                    THEN notion_fetch_remote_record(env, page_id[1])
                    ELSE None)
        loaded(record) == linked(record, LinkedPage(record))
    IN  IF json_path \notin JsonFiles(st.files)
        THEN Returned(st.files, st.rows, st.requests, None)
        ELSE loaded(load_record_by_json_path(st.files, path))

\* sync_record_bidirectional_internal
sync_record_bidirectional_internal(st, db, json_path, conflict_strategy, env) ==
    LET path    == json_path
        md_path == with_extension(path, "md")
        decided(record, remote_record, local_changed, notion_changed) ==
            IF local_changed /\ notion_changed
            THEN IF conflict_strategy = "manual"
                 THEN PersistAndReport(
                          st, db,
                          ConflictRecord(record,
                              "Conflict detected: local and Notion both changed since last sync."),
                          path, md_path, "conflict_manual", TRUE, env)
                 ELSE IF conflict_strategy = "notion_wins"
                 THEN PersistAndReport(st, db,
                                       PulledRecord(record, remote_record),
                                       path, md_path,
                                       "pulled_notion_conflict_notion_wins",
                                       FALSE, env)
                 ELSE push_local_record_to_notion(
                          st, db, record, path, md_path,
                          "pushed_local_conflict_local_wins", env)
            ELSE IF local_changed
            THEN push_local_record_to_notion(st, db, record, path, md_path,
                                             "pushed_local", env)
            ELSE IF notion_changed
            THEN PersistAndReport(st, db, PulledRecord(record, remote_record),
                                  path, md_path, "pulled_notion", FALSE, env)
            ELSE PersistAndReport(
                     st, db,
                     mark_record_synced(record, remote_record.last_edited_time),
                     path, md_path, "noop", FALSE, env)
        fetched(record, remote) ==
            IF remote = None
            THEN push_local_record_to_notion(st, db, record, path, md_path,
                                             "pushed_local", env)
            ELSE decided(record, remote[1],
                         local_has_changed_since_sync(record),
                         remote_has_changed(record, remote[1]))
        linked(record, page_id) ==
            fetched(record,
                    IF page_id # None
                    THEN notion_fetch_remote_record(env, page_id[1])
                    ELSE None)
        loaded(record) == linked(record, LinkedPage(record))
    IN  IF json_path \notin JsonFiles(st.files)
        THEN Returned(st.files, st.rows, st.requests, None)
        ELSE loaded(load_record_by_json_path(st.files, path))

\* The files, the index rows and the requests before a command.
StoreState == [files |-> store_files, rows |-> records_fts, requests |-> <<>>]

\* The counters and the results of a batch before its loop.
EmptyBatch ==
    [files |-> store_files, rows |-> records_fts, requests |-> <<>>,
     results |-> <<>>, success |-> 0, failed |-> 0, conflicts |-> 0,
     ok |-> TRUE]

\* Mutant: a conflict is counted in conflicts only.
Tallied_ConflictsApart(batch, item) ==
    IF item.conflict
    THEN [batch EXCEPT !.conflicts = @ + 1, !.results = Append(@, item)]
    ELSE IF item.notion_sync_status = "SUCCESS"
    THEN [batch EXCEPT !.success = @ + 1, !.results = Append(@, item)]
    ELSE [batch EXCEPT !.failed = @ + 1, !.results = Append(@, item)]

\* The counters of a batch after one more result.
Tallied(batch, item) ==
    IF item.conflict
    THEN [batch EXCEPT !.conflicts = @ + 1, !.failed = @ + 1,
                       !.results = Append(@, item)]
    ELSE IF item.notion_sync_status = "SUCCESS"
    THEN [batch EXCEPT !.success = @ + 1, !.results = Append(@, item)]
    ELSE [batch EXCEPT !.failed = @ + 1, !.results = Append(@, item)]

\* The Err arm of the loop of a batch sync.
ErrorResult(item) ==
    [json_path |-> item, notion_page_id |-> None,
     notion_sync_status |-> "FAILED", notion_error |-> Some("error"),
     action |-> "error", conflict |-> FALSE]

\* One item of sync_records_to_notion or sync_records_bidirectional.
SyncItem(batch, db, item, conflict_strategy, env, bidirectional) ==
    LET st  == [files |-> batch.files, rows |-> batch.rows,
                requests |-> batch.requests]
        tallied(ret, moved) ==
            IF ret.ok THEN Tallied(moved, ret.result[1])
            ELSE [moved EXCEPT !.failed = @ + 1,
                               !.results = Append(@, ErrorResult(item))]
        returned(ret) ==
            tallied(ret, [batch EXCEPT !.files = ret.files, !.rows = ret.rows,
                                       !.requests = ret.requests])
    IN  returned(IF bidirectional
                 THEN sync_record_bidirectional_internal(st, db, item,
                                                         conflict_strategy, env)
                 ELSE sync_record_to_notion_internal(st, db, item,
                                                     conflict_strategy, env))

\* for item in json_paths
RECURSIVE SyncEach(_, _, _, _, _, _, _)
SyncEach(batch, db, json_paths, i, conflict_strategy, env, bidirectional) ==
    IF i > Len(json_paths) THEN batch
    ELSE SyncEach(SyncItem(batch, db, json_paths[i], conflict_strategy, env,
                           bidirectional),
                  db, json_paths, i + 1, conflict_strategy, env, bidirectional)

\* NotionBatchSyncResult, with what the model keeps of the call.
BatchResult(op, batch, given, conflict_strategy, env) ==
    [op |-> op, ok |-> batch.ok, given |-> given,
     conflict_strategy |-> conflict_strategy, env |-> env,
     total |-> Len(batch.results), success |-> batch.success,
     failed |-> batch.failed, conflicts |-> batch.conflicts,
     results |-> batch.results, requests |-> batch.requests]

\* The result of a command on one record, with what the model keeps of
\* the call.
SingleResult(op, ret, json_path, conflict_strategy, env) ==
    [op |-> op, ok |-> ret.ok, given |-> <<json_path>>,
     conflict_strategy |-> conflict_strategy, env |-> env,
     results |-> ret.result, requests |-> ret.requests]

\* Ok or Err of a command on one record reaches the caller, with the files
\* and the index rows its function has left.
ReturnSingle(op, ret, json_path, conflict_strategy, env) ==
    /\ store_files' = ret.files
    /\ records_fts' = ret.rows
    /\ store_result' = Some(SingleResult(op, ret, json_path,
                                         conflict_strategy, env))

\* The NotionBatchSyncResult of a batch command reaches the caller.
ReturnBatch(op, batch, given, conflict_strategy, env) ==
    /\ store_files' = batch.files
    /\ records_fts' = batch.rows
    /\ store_result' = Some(BatchResult(op, batch, given,
                                        conflict_strategy, env))

\* sync_record_to_notion
SyncRecordToNotion(json_path, conflict_strategy, env) ==
    LET strategy == normalize_conflict_strategy(conflict_strategy) IN
    /\ ReturnSingle("sync_record_to_notion",
                    sync_record_to_notion_internal(StoreState, index_db,
                                                   json_path, strategy, env),
                    json_path, strategy, env)
    /\ Noted("sync_record_to_notion")
    /\ UNCHANGED <<facade_vars, debate_vars, index_db, index_meta>>

\* sync_record_bidirectional
SyncRecordBidirectional(json_path, conflict_strategy, env) ==
    LET strategy == normalize_conflict_strategy(conflict_strategy) IN
    /\ ReturnSingle("sync_record_bidirectional",
                    sync_record_bidirectional_internal(StoreState, index_db,
                                                       json_path, strategy, env),
                    json_path, strategy, env)
    /\ Noted("sync_record_bidirectional")
    /\ UNCHANGED <<facade_vars, debate_vars, index_db, index_meta>>

\* sync_records_to_notion
SyncRecordsToNotion(json_paths, conflict_strategy, env) ==
    LET strategy == normalize_conflict_strategy(conflict_strategy) IN
    /\ ReturnBatch("sync_records_to_notion",
                   SyncEach(EmptyBatch, index_db, json_paths, 1, strategy, env,
                            FALSE),
                   json_paths, strategy, env)
    /\ Noted("sync_records_to_notion")
    /\ UNCHANGED <<facade_vars, debate_vars, index_db, index_meta>>

\* sync_records_bidirectional
SyncRecordsBidirectional(json_paths, conflict_strategy, env) ==
    LET strategy == normalize_conflict_strategy(conflict_strategy) IN
    /\ ReturnBatch("sync_records_bidirectional",
                   SyncEach(EmptyBatch, index_db, json_paths, 1, strategy, env,
                            TRUE),
                   json_paths, strategy, env)
    /\ Noted("sync_records_bidirectional")
    /\ UNCHANGED <<facade_vars, debate_vars, index_db, index_meta>>

\* Mutant: no local record is found for a page.
ByPageId_NoMatch(locals, page_id) == None

\* by_page_id of pull_records_from_notion_internal: the local record that
\* carries the page id, if any (the page ids of the local records of the
\* model are distinct).
ByPageId(locals, page_id) ==
    LET hits == {i \in 1..Len(locals) : LinkedPage(locals[i]) = Some(page_id)}
    IN  IF hits = {} THEN None ELSE Some(locals[CHOOSE i \in hits : TRUE])

\* A page of notion_query_database_pages: the record that
\* notion_remote_record_from_page reads from it, unless the read fails.
Page(remote, readable) == [remote |-> remote, readable |-> readable]

\* The result of a page that could not be read.
PullFailed(page) ==
    [json_path |-> EmptyPath, notion_page_id |-> Some(page.remote.page_id),
     notion_sync_status |-> "FAILED", notion_error |-> Some("error"),
     action |-> "pull_failed", conflict |-> FALSE]

\* The branch of pull_records_from_notion_internal for a page that a local
\* record carries.
PullExisting(st, db, existing, remote, conflict_strategy, env) ==
    LET decided(json_path, md_path, local_changed, notion_changed) ==
            IF local_changed /\ notion_changed
            THEN IF conflict_strategy = "manual"
                 THEN PersistAndReport(
                          st, db,
                          ConflictRecord(existing,
                              "Conflict detected while pulling from Notion (manual strategy)."),
                          json_path, md_path, "conflict_manual", TRUE, env)
                 ELSE IF conflict_strategy = "local_wins"
                 THEN push_local_record_to_notion(
                          st, db, existing, json_path, md_path,
                          "pushed_local_conflict_local_wins", env)
                 ELSE PersistAndReport(st, db, PulledRecord(existing, remote),
                                       json_path, md_path,
                                       "pulled_notion_conflict_notion_wins",
                                       FALSE, env)
            ELSE IF notion_changed
            THEN PersistAndReport(st, db, PulledRecord(existing, remote),
                                  json_path, md_path, "pulled_notion", FALSE, env)
            ELSE IF local_changed
            THEN IF conflict_strategy = "local_wins"
                 THEN push_local_record_to_notion(
                          st, db, existing, json_path, md_path,
                          "pushed_local_local_only_change", env)
                 ELSE IF conflict_strategy = "notion_wins"
                 THEN PersistAndReport(st, db, PulledRecord(existing, remote),
                                       json_path, md_path,
                                       "pulled_notion_local_only_change", FALSE, env)
                 ELSE PersistAndReport(
                          st, db,
                          [existing EXCEPT
                              !.notion_sync_status = "PENDING",
                              !.notion_error =
                                  Some("Local-only changes detected. Pull skipped by manual strategy.")],
                          json_path, md_path, "local_only_pending", FALSE, env)
            ELSE PersistAndReport(
                     st, db, mark_record_synced(existing, remote.last_edited_time),
                     json_path, md_path, "noop", FALSE, env)
        resolved(json_path) ==
            decided(json_path, with_extension(json_path, "md"),
                    local_has_changed_since_sync(existing),
                    remote_has_changed(existing, remote))
    IN  resolved(resolve_record_paths(st.files, existing))

\* The branch of pull_records_from_notion_internal for a page that no
\* local record carries: success is counted without a look at the result.
PullCreate(st, db, remote, env) ==
    LET placed(next, json_path) ==
            PersistAndReport(st, db, next, json_path,
                             with_extension(json_path, "md"),
                             "created_local_from_notion", FALSE, env)
        created(next) ==
            placed(next,
                   generate_unique_record_paths(st.files, next.record_type,
                                                next.title))
    IN  created(mark_record_synced(record_from_remote(remote),
                                   remote.last_edited_time))

\* One page of the loop of pull_records_from_notion_internal; an Err of a
\* `?` ends the loop and the command.
PullPage(batch, db, locals, page, conflict_strategy, env) ==
    LET st == [files |-> batch.files, rows |-> batch.rows,
               requests |-> batch.requests]
        tallied(existing, ret, moved) ==
            IF ~ret.ok THEN [moved EXCEPT !.ok = FALSE]
            ELSE IF existing # None THEN Tallied(moved, ret.result[1])
            ELSE [moved EXCEPT !.success = @ + 1,
                               !.results = Append(@, ret.result[1])]
        returned(existing, ret) ==
            tallied(existing, ret,
                    [batch EXCEPT !.files = ret.files, !.rows = ret.rows,
                                  !.requests = ret.requests])
        found(existing) ==
            returned(existing,
                     IF existing # None
                     THEN PullExisting(st, db, existing[1], page.remote,
                                       conflict_strategy, env)
                     ELSE PullCreate(st, db, page.remote, env))
    IN  IF ~page.readable
        THEN [batch EXCEPT !.failed = @ + 1,
                           !.results = Append(@, PullFailed(page))]
        ELSE found(ByPageId(locals, page.remote.page_id))

\* for page in pages
RECURSIVE PullEach(_, _, _, _, _, _, _)
PullEach(batch, db, locals, pages, i, conflict_strategy, env) ==
    IF i > Len(pages) \/ ~batch.ok THEN batch
    ELSE PullEach(PullPage(batch, db, locals, pages[i], conflict_strategy, env),
                  db, locals, pages, i + 1, conflict_strategy, env)

\* pull_records_from_notion
PullRecordsFromNotion(pages, conflict_strategy, env) ==
    LET strategy == normalize_conflict_strategy(conflict_strategy) IN
    /\ ReturnBatch("pull_records_from_notion",
                   PullEach(EmptyBatch, index_db, load_records(store_files),
                            pages, 1, strategy, env),
                   pages, strategy, env)
    /\ Noted("pull_records_from_notion")
    /\ UNCHANGED <<facade_vars, debate_vars, index_db, index_meta>>

(* ---------------------------------------------------------------------- *)
(* search_records                                                          *)
(* ---------------------------------------------------------------------- *)

\* A query is a sequence of characters.  The characters of the strings that
\* records and index rows hold.
Chars(s) ==
    CASE s = "Plan"     -> <<"P", "l", "a", "n">>
      [] s = "Untitled" -> <<"U", "n", "t", "i", "t", "l", "e", "d">>
      [] s = "decision" -> <<"d", "e", "c", "i", "s", "i", "o", "n">>
      [] s = "idea"     -> <<"i", "d", "e", "a">>
      [] s = "note"     -> <<"n", "o", "t", "e">>
      [] s = "SUCCESS"  -> <<"S", "U", "C", "C", "E", "S", "S">>
      [] OTHER          -> <<>>

\* char::to_lowercase on the capitals of the model.
LowerChar(c) ==
    CASE c = "P" -> "p" [] c = "L" -> "l" [] c = "A" -> "a" [] c = "N" -> "n"
      [] c = "U" -> "u" [] c = "S" -> "s" [] c = "C" -> "c" [] c = "E" -> "e"
      [] c = "M" -> "m" [] c = "F" -> "f"
      [] OTHER -> c

\* str::to_lowercase on a sequence of characters.
LowerChars(cs) == [i \in 1..Len(cs) |-> LowerChar(cs[i])]

\* str::trim on a sequence of characters.
RECURSIVE TrimChars(_)
TrimChars(cs) ==
    IF cs = <<>> THEN cs
    ELSE IF cs[1] = " " THEN TrimChars(Tail(cs))
    ELSE IF cs[Len(cs)] = " " THEN TrimChars(SubSeq(cs, 1, Len(cs) - 1))
    ELSE cs

\* str::contains
Contains(text, pattern) ==
    \E i \in 0..(Len(text) - Len(pattern)) :
        SubSeq(text, i + 1, i + Len(pattern)) = pattern

\* limit.unwrap_or(200).clamp(1, 1000)
ClampLimit(limit) ==
    LET n == UnwrapOr(limit, 200) IN
    IF n < 1 THEN 1 ELSE IF n > 1000 THEN 1000 ELSE n

\* Mutant: every search is served by the index.
use_index_Always(query_text) == TRUE

\* use_index of search_records
use_index(query_text) == query_text # <<>>

\* matches_record, without date filters.
matches_record(record, lowered_query, record_type) ==
    IF record_type # None /\ record.record_type # record_type[1] THEN FALSE
    ELSE IF lowered_query = <<>> THEN TRUE
    ELSE Contains(LowerChars(Chars(record.title) \o <<" ">>
                             \o Chars(record.final_body) \o <<" ", " ">>),
                  lowered_query)

\* The records of a list that matches_record accepts, in order.
RECURSIVE Filter(_, _, _, _)
Filter(records, lowered, record_type, i) ==
    IF i > Len(records) THEN <<>>
    ELSE (IF matches_record(records[i], lowered, record_type)
          THEN <<records[i]>> ELSE <<>>)
         \o Filter(records, lowered, record_type, i + 1)

\* .skip(offset).take(limit), and LIMIT .. OFFSET ..
SkipTake(items, offset, limit) ==
    SubSeq(items, offset + 1,
           IF offset + limit < Len(items) THEN offset + limit ELSE Len(items))

\* search_records_in_memory
search_records_in_memory(records, query, record_type, limit, offset) ==
    SkipTake(Filter(records, LowerChars(TrimChars(query)), record_type, 1),
             offset, limit)

\* count_records_in_memory
count_records_in_memory(records, query, record_type) ==
    Len(Filter(records, LowerChars(TrimChars(query)), record_type, 1))

\* The words of a sequence of characters, as the tokenizer of the
\* full-text table cuts them: lower case, split at spaces and quotes.
RECURSIVE Tokens(_, _)
Tokens(cs, word) ==
    IF cs = <<>> THEN (IF word = <<>> THEN {} ELSE {word})
    ELSE IF cs[1] \in {" ", "\""}
    THEN (IF word = <<>> THEN {} ELSE {word}) \cup Tokens(Tail(cs), <<>>)
    ELSE Tokens(Tail(cs), Append(word, LowerChar(cs[1])))

\* The quotes of a query: one that is not closed is a syntax error of
\* MATCH.
RECURSIVE Quotes(_)
Quotes(cs) ==
    IF cs = <<>> THEN 0
    ELSE (IF cs[1] = "\"" THEN 1 ELSE 0) + Quotes(Tail(cs))

MatchSyntaxError(query) == Quotes(query) % 2 = 1

\* records_fts MATCH ?: every word of the query is a word of an indexed
\* column of the row.
RowMatches(row, query) ==
    Tokens(query, <<>>) \subseteq
        Tokens(Chars(row.record_type) \o <<" ">> \o Chars(row.title) \o <<" ">>
               \o Chars(row.final_body) \o <<" ">>
               \o Chars(row.notion_sync_status), <<>>)

\* The rows of a bag, each as often as the table holds it.
RECURSIVE BagToSeq(_)
BagToSeq(rows) ==
    IF DOMAIN rows = {} THEN <<>>
    ELSE LET r == CHOOSE x \in DOMAIN rows : TRUE
         IN  [i \in 1..rows[r] |-> r]
             \o BagToSeq([x \in DOMAIN rows \ {r} |-> rows[x]])

\* The Record that search_records_in_index builds from a row.
RecordOfRow(row) ==
    [record_type |-> row.record_type,
     title |-> row.title,
     final_body |-> row.final_body,
     notion_sync_status |-> row.notion_sync_status,
     json_path |-> Some(row.json_path),
     md_path |-> Some(row.md_path)]

\* The rows of the WHERE clause of search_records_in_index.
RECURSIVE Selected(_, _, _, _)
Selected(rows, query, record_type, i) ==
    IF i > Len(rows) THEN <<>>
    ELSE (IF /\ RowMatches(rows[i], query)
             /\ (record_type = None \/ rows[i].record_type = record_type[1])
          THEN <<RecordOfRow(rows[i])>> ELSE <<>>)
         \o Selected(rows, query, record_type, i + 1)

\* search_records_in_index.  fault is "open" when the connection cannot be
\* opened, "query" when a statement fails, "none" otherwise; the order of
\* the rows (bm25, created_at) is the order of BagToSeq.
search_records_in_index(rows, query, record_type, limit, offset, fault) ==
    IF fault # "none" \/ MatchSyntaxError(query)
    THEN [ok |-> FALSE, records |-> <<>>, total |-> 0]
    ELSE LET hits == Selected(BagToSeq(rows), query, record_type, 1)
         IN  [ok |-> TRUE, records |-> SkipTake(hits, offset, limit),
              total |-> Len(hits)]

IndexFaults == {"none", "open", "query"}

\* search_records, without date filters.  fail_at is the failure of the
\* rebuild that a search runs when the database file is missing.
SearchRecords(query, record_type_input, limit_input, offset_input, fail_at, fault) ==
    LET limit       == ClampLimit(limit_input)
        offset      == UnwrapOr(offset_input, 0)
        query_text  == TrimChars(UnwrapOr(query, <<>>))
        record_type == IF record_type_input = None THEN None
                       ELSE Some(normalize_record_type(record_type_input[1]))
        all         == load_records(store_files)
        rebuilds    == use_index(query_text) /\ ~index_db
        rebuilt     == IF rebuilds
                       THEN rebuild_index(index_db, records_fts, index_meta,
                                          all, fail_at)
                       ELSE [ok |-> FALSE, count |-> 0, db |-> index_db,
                             rows |-> records_fts, meta |-> index_meta]
        found       == search_records_in_index(rebuilt.rows, query_text,
                                               record_type, limit, offset, fault)
        served      == IF use_index(query_text) /\ found.ok
                       THEN [records |-> found.records, total |-> found.total,
                             indexed |-> TRUE]
                       ELSE [records |-> search_records_in_memory(
                                             all, query_text, record_type,
                                             limit, offset),
                             total |-> count_records_in_memory(
                                           all, query_text, record_type),
                             indexed |-> FALSE]
    IN  /\ ~rebuilds => fail_at = None
        /\ fail_at # None => fail_at[1] \in 0..(Len(all) + 3)
        /\ ~use_index(query_text) => fault = "none"
        /\ index_db' = IF use_index(query_text)
                       THEN (rebuilt.db \/ fault # "open")
                       ELSE index_db
        /\ records_fts' = rebuilt.rows
        /\ index_meta' = rebuilt.meta
        /\ store_result' =
               Some([op |-> "search_records", ok |-> TRUE,
                     query |-> query, limit |-> limit_input,
                     offset |-> offset_input, fault |-> fault,
                     records |-> served.records, total |-> served.total,
                     indexed |-> served.indexed])
        /\ since_rebuild' = IF rebuilds /\ rebuilt.ok THEN Some(TRUE)
                            ELSE since_rebuild
        /\ UNCHANGED <<facade_vars, debate_vars, store_files, settings_vars, cli_vars,
                       step_vars, creations>>

(* ---------------------------------------------------------------------- *)
(* Specifications of the record store                                      *)
(* ---------------------------------------------------------------------- *)

InitStore == InitFacade /\ IdleRun

UpsertFaults ==
    {"write_json", "write_md", "remove_old", "remove_old_md", "index_delete",
     "index_upsert"}

DeleteFaults == {"remove_json", "remove_md", "index_delete"}

\* upsert_record, delete_record and rebuild_search_index when every file
\* and index operation succeeds.
RecordCommands ==
    \/ \E t \in RecordTypeInputs, title \in TitleInputs,
          prior \in PreviousJsonPathInputs :
           UpsertRecord(t, title, prior, "none")
    \/ \E q \in JsonPathInputs : DeleteRecord(q, "none")
    \/ RebuildSearchIndex(None)

RemoteTypeInputs == {"idea"}

\* Notion as the commands of SpecStore meet it: every page can be fetched,
\* holds a record of the given type and was last edited at "e1", the time
\* that Notion also stamps on what the command writes (SpecStore has no
\* tick of the clock); every request and every write succeeds.
Reachable(record_type) ==
    Environment([p \in LinkedPages(store_files) \cup {1} |->
                    RemoteRecord(p, record_type, "", Some("e1"))],
                {}, {}, {}, {}, "e1")

\* The pages notion_query_database_pages returns.
PageBatches ==
    {<<Page(RemoteRecord(1, t, "", Some("e1")), TRUE)>> : t \in RemoteTypeInputs}

\* The json_paths of a batch: a path without a file, then every record.
JsonPathBatches == {<<GonePath>> \o SetToSeq(JsonFiles(store_files))}

\* The conflict strategies of SpecStore.
StoreStrategies == {Some("local"), Some(" Notion ")}

\* The store a command leaves is one the model follows.
FollowedStore == WithinBounds(store_files', records_fts', 0)

\* The record commands and the Notion sync commands, all succeeding.
NextStore ==
    \/ RecordCommands
    \/ \E q \in JsonPathInputs, s \in StoreStrategies, t \in RemoteTypeInputs :
           SyncRecordToNotion(q, s, Reachable(t)) /\ FollowedStore
    \/ \E q \in JsonPathInputs, s \in StoreStrategies, t \in RemoteTypeInputs :
           SyncRecordBidirectional(q, s, Reachable(t)) /\ FollowedStore
    \/ \E b \in JsonPathBatches, s \in StoreStrategies, t \in RemoteTypeInputs :
           SyncRecordsToNotion(b, s, Reachable(t)) /\ FollowedStore
    \/ \E b \in JsonPathBatches, s \in StoreStrategies, t \in RemoteTypeInputs :
           SyncRecordsBidirectional(b, s, Reachable(t)) /\ FollowedStore
    \/ \E pages \in PageBatches, s \in StoreStrategies, t \in RemoteTypeInputs :
           PullRecordsFromNotion(pages, s, Reachable(t)) /\ FollowedStore

\* No earlier failure has left its mark: every file has its twin and every
\* index row its file.
Settled ==
    /\ \A q \in DOMAIN store_files :
           with_extension(q, IF q[4] = "json" THEN "md" ELSE "json")
               \in DOMAIN store_files
    /\ \A r \in BagToSet(records_fts) : r.json_path \in DOMAIN store_files

\* The same commands with one operation of the call failing.
FailingCommand ==
    \/ \E t \in RecordTypeInputs, title \in TitleInputs,
          prior \in PreviousJsonPathInputs, fault \in UpsertFaults :
           UpsertRecord(t, title, prior, fault)
    \/ \E q \in JsonPathInputs, fault \in DeleteFaults : DeleteRecord(q, fault)
    \/ \E k \in 0..(MaxRecords + 3) : RebuildSearchIndex(Some(k))

\* A failure strikes a store that no earlier failure has marked.
StoreFault == Settled /\ FailingCommand

\* upsert_record, delete_record and rebuild_search_index, failing or not.
NextStoreFault == RecordCommands \/ StoreFault

SpecStore == InitStore /\ [][NextStore]_vars

SpecStoreFault == InitStore /\ [][NextStoreFault]_vars

\* The records of the stores that are searched.
StoredPool ==
    {[record_type |-> t, title |-> title, notion_page_id |-> None,
      final_body |-> "", notion_sync_status |-> "SUCCESS",
      notion_error |-> None, notion_last_edited_time |-> None,
      notion_last_synced_hash |-> None,
      json_path |-> Some(<<"records", record_dir_by_type(t),
                           generate_filename(t, title), "json">>),
      md_path |-> Some(<<"records", record_dir_by_type(t),
                         generate_filename(t, title), "md">>)] :
        t \in {"decision", "idea"}, title \in {"Plan", "Untitled"}}

\* The record files of a set of records.
RECURSIVE FilesOf(_)
FilesOf(records) ==
    IF records = {} THEN <<>>
    ELSE LET r == CHOOSE x \in records : TRUE
         IN  persist_record_to_files(FilesOf(records \ {r}), r,
                                     r.json_path[1], r.md_path[1])

StoredSets == {S \in SUBSET StoredPool : Cardinality(S) <= MaxStored}

\* A store of at most MaxStored records, without an index database or with
\* one whose rows are those of some of the pool's records: an index keeps
\* the rows it was given when record files come and go without it.
InitSearch ==
    /\ InitFacade
    /\ IdleDebate
    /\ \E S \in StoredSets : store_files = FilesOf(S)
    /\ \E db \in BOOLEAN, R \in StoredSets :
           /\ index_db = db
           /\ records_fts = IF db THEN SetToBag({FtsRow(r) : r \in R})
                            ELSE EmptyBag
           /\ ~db => R = {}
    /\ index_meta = None
    /\ store_result = None
    /\ since_rebuild = None
    /\ settings_file = None
    /\ settings_result = None
    /\ IdleCli
    /\ IdleSteps

QueryInputs ==
    {None,
     Some(<<" ", " ">>),
     Some(<<" ", "P", "L", "A", "N", " ">>),
     Some(<<"l", "a">>),
     Some(<<"\"", "p", "l", "a", "n">>),
     Some(<<"z">>)}

LimitInputs == {None, Some(0), Some(1), Some(5000)}

OffsetInputs == {None, Some(1), Some(MaxStored)}

\* One search of the store, whatever the store.
NextSearch ==
    /\ store_result = None
    /\ \E query \in QueryInputs, t \in {None, Some(" Decision ")},
          limit \in LimitInputs, offset \in OffsetInputs,
          fail_at \in {None, Some(0), Some(1)}, fault \in IndexFaults :
           SearchRecords(query, t, limit, offset, fail_at, fault)

SpecSearch == InitSearch /\ [][NextSearch]_vars

\* The two local records of the stores that are synced.
LocalA == <<"records", "decisions", <<0, "decision", "plan">>, "json">>

LocalB == <<"records", "ideas", <<0, "idea", "plan">>, "json">>

\* A stored record of the given type at the given path: never synced
\* ("unlinked"), synced and unchanged since ("clean"), or synced and edited
\* since ("dirty").
StoredRecord(json_path, record_type, page_id, kind) ==
    [record_type |-> record_type, title |-> "Plan",
     notion_page_id |-> IF kind = "unlinked" THEN None ELSE Some(page_id),
     final_body |-> "local text",
     notion_sync_status |-> "SUCCESS",
     notion_error |-> None,
     notion_last_edited_time |-> IF kind = "unlinked" THEN None ELSE Some("e1"),
     notion_last_synced_hash |->
         IF kind = "unlinked" THEN None
         ELSE IF kind = "clean"
         THEN Some(<<record_type, "Plan", "local text">>)
         ELSE Some(<<record_type, "Plan", "old text">>),
     json_path |-> Some(json_path),
     md_path |-> Some(with_extension(json_path, "md"))]

SyncStores ==
    {{StoredRecord(LocalA, "decision", 1, a)} \cup
     (IF b = "absent" THEN {} ELSE {StoredRecord(LocalB, "idea", 2, b)}) :
        a \in {"unlinked", "clean", "dirty"}, b \in {"absent", "clean", "dirty"}}

\* A store of one or two records, synced before or not, with an index that
\* mirrors it or without an index.
InitSync ==
    /\ InitFacade
    /\ IdleDebate
    /\ \E S \in SyncStores, db \in BOOLEAN :
           /\ store_files = FilesOf(S)
           /\ index_db = db
           /\ records_fts = IF db THEN SetToBag({FtsRow(r) : r \in S})
                            ELSE EmptyBag
    /\ index_meta = None
    /\ store_result = None
    /\ since_rebuild = None
    /\ settings_file = None
    /\ settings_result = None
    /\ IdleCli
    /\ IdleSteps

\* The page of a local record as Notion holds it: not edited since the last
\* sync ("e1"), edited since ("e2"), or without a last_edited_time.
RemoteStates(page_id) ==
    {RemoteRecord(page_id, "idea", "remote text", e) :
        e \in {Some("e1"), Some("e2"), None}}

\* What Notion and the file system do during a command of SpecSync.
SyncEnvironments ==
    {Environment([p \in {1, 2} |-> IF p = 1 THEN r1 ELSE r2],
                 unreachable, gone, rejects, unwritable, "e3") :
        r1 \in RemoteStates(1),
        r2 \in {RemoteRecord(2, "idea", "remote text", Some("e2"))},
        unreachable \in {{}, {1}},
        gone \in {{}, {1}},
        rejects \in {{}, {LocalA}},
        unwritable \in {{}, {LocalA}, {with_extension(LocalB, "md")}}}

ConflictStrategyInputs == {None, Some("local"), Some(" Notion ")}

\* Sequences of distinct elements of S, of length 1..n.
Arrangements(S, n) ==
    {q \in UNION {[1..k -> S] : k \in 1..n} :
        \A i, j \in DOMAIN q : i # j => q[i] # q[j]}

\* The json_paths of a batch sync of SpecSync.
SyncBatches == Arrangements({LocalA, LocalB, GonePath}, MaxBatch)

\* The pages a query of the database returns in SpecSync: those of the
\* local records as the environment holds them, and two pages that no
\* local record carries, of one type and one title.
QueriedPage(env, page_id) ==
    IF page_id \in DOMAIN env.remote
    THEN Page(env.remote[page_id], page_id \notin env.unreachable)
    ELSE Page(RemoteRecord(page_id, "idea", "remote text", Some("e2")), TRUE)

PullBatches(env) ==
    {[i \in DOMAIN ids |-> QueriedPage(env, ids[i])] :
        ids \in Arrangements({1, 2, 3, 4}, MaxBatch)}

\* One Notion command on the store, whatever the store.
NextSync ==
    /\ store_result = None
    /\ \E s \in ConflictStrategyInputs, env \in SyncEnvironments :
          \/ \E q \in {LocalA, LocalB, GonePath} : SyncRecordToNotion(q, s, env)
          \/ \E q \in {LocalA, LocalB, GonePath} : SyncRecordBidirectional(q, s, env)
          \/ \E b \in SyncBatches : SyncRecordsToNotion(b, s, env)
          \/ \E b \in SyncBatches : SyncRecordsBidirectional(b, s, env)
          \/ \E pages \in PullBatches(env) : PullRecordsFromNotion(pages, s, env)

SpecSync == InitSync /\ [][NextSync]_vars

(* ---------------------------------------------------------------------- *)
(* Properties of the record store                                          *)
(* ---------------------------------------------------------------------- *)

\* The number of rows of the full-text table keyed by json_path.
RECURSIVE CopiesOf(_, _)
CopiesOf(rows, S) ==
    IF S = {} THEN 0
    ELSE LET r == CHOOSE x \in S : TRUE IN rows[r] + CopiesOf(rows, S \ {r})

RowCount(rows) == CopiesOf(rows, DOMAIN rows)

RowsFor(json_path) ==
    CopiesOf(records_fts, {r \in DOMAIN records_fts : r.json_path = json_path})

UpsertReturned ==
    /\ store_result # None
    /\ store_result[1].op = "upsert_record"
    /\ store_result[1].ok

\* C15: after an upsert_record that returned Ok, the structured file and
\* the markdown file of the returned record exist, have the same stem and
\* lie in records/<directory of the returned record_type>; an unknown type
\* has become note, filed under other.
C15_UpsertPostcondition ==
    UpsertReturned =>
        LET record    == store_result[1].record[1]
            json_path == record.json_path[1]
            md_path   == record.md_path[1]
        IN  /\ json_path \in DOMAIN store_files
            /\ md_path \in DOMAIN store_files
            /\ json_path[4] = "json"
            /\ md_path[4] = "md"
            /\ file_stem(json_path) = file_stem(md_path)
            /\ record.record_type \in DOMAIN RecordTypeDirs
            /\ json_path[1] = "records"
            /\ md_path[1] = "records"
            /\ json_path[2] = RecordTypeDirs[record.record_type]
            /\ md_path[2] = RecordTypeDirs[record.record_type]
            /\ TrimLower(store_result[1].payload_type) \notin DOMAIN RecordTypeDirs
                   => record.record_type = "note" /\ json_path[2] = "other"

\* A record of a known type was re-filed with an unknown type string while
\* the removal of its old markdown file failed.
C15_Witness ==
    /\ UpsertReturned
    /\ store_result[1].payload_type = "bogus"
    /\ store_result[1].prior_existed
    /\ store_result[1].previous_json_path[1][2] = "decisions"
    /\ store_result[1].fault = "remove_old_md"
    /\ store_result[1].record[1].json_path[1] \in DOMAIN store_files

UpsertWithPrior ==
    /\ UpsertReturned
    /\ store_result[1].previous_json_path # None

\* C16: an upsert with a prior path reuses the stem of the prior file when
\* that file exists and takes a fresh stem otherwise; when the target
\* differs from the prior path, the prior structured file, markdown file
\* and index row are gone, so that one file pair and at most one index row
\* remain for the record; when the target is the prior path the pair is
\* rewritten in place.
C16_UpsertWithPriorPath ==
    UpsertWithPrior =>
        LET record == store_result[1].record[1]
            new    == record.json_path[1]
            new_md == record.md_path[1]
            old    == store_result[1].previous_json_path[1]
            old_md == with_extension(old, "md")
            stem   == file_stem(new)
        IN  /\ IF store_result[1].prior_existed
               THEN stem = file_stem(old)
               ELSE /\ stem[1] <= clock
                    /\ stem[2] = record.record_type
                    /\ stem[3] = slugify(record.title)
            /\ new \in DOMAIN store_files
            /\ new_md \in DOMAIN store_files
            /\ store_files[new] = PersistedValue(record)
            /\ store_files[new_md] = render_markdown(record)
            /\ new # old =>
                   /\ old \notin DOMAIN store_files
                   /\ old_md \notin DOMAIN store_files
                   /\ RowsFor(old) = 0
            /\ RowsFor(new) <= 1
            /\ index_db => RowsFor(new) = 1

\* An indexed record has changed its type: it moved to another directory
\* under its old stem.
C16_Witness ==
    /\ UpsertWithPrior
    /\ store_result[1].prior_existed
    /\ store_result[1].record[1].json_path[1] # store_result[1].previous_json_path[1]
    /\ file_stem(store_result[1].record[1].json_path[1])[2]
           # store_result[1].record[1].record_type
    /\ index_db
    /\ RowsFor(store_result[1].record[1].json_path[1]) = 1

\* C17: delete_record attempts its three removals independently: the
\* failure of one of them prevents neither of the other two, and when all
\* succeed neither file nor an index row of the path remains.
C17_DeleteIndependence ==
    (store_result # None /\ store_result[1].op = "delete_record") =>
        LET path    == store_result[1].json_path
            md_path == with_extension(path, "md")
            fault   == store_result[1].fault
        IN  /\ fault # "remove_json" => path \notin DOMAIN store_files
            /\ fault # "remove_md" => md_path \notin DOMAIN store_files
            /\ fault # "index_delete" => RowsFor(path) = 0

\* C18: a successful rebuild_index leaves exactly one row per given record
\* in the full-text table, whatever it held before, sets meta.recordCount
\* to the number of records and returns that number; a rebuild that fails
\* leaves the rows and the meta as they were.
C18_RebuildPostcondition ==
    [][(store_result' # None /\ store_result'[1].op = "rebuild_index") =>
           LET given == load_records(store_files) IN
           IF store_result'[1].ok
           THEN /\ RowCount(records_fts') = Len(given)
                /\ \A r \in DOMAIN records_fts' : records_fts'[r] = 1
                /\ DOMAIN records_fts' = {FtsRow(given[i]) : i \in 1..Len(given)}
                /\ index_meta' = Some([recordCount |-> ToString(Len(given))])
                /\ store_result'[1].count = Len(given)
           ELSE /\ records_fts' = records_fts
                /\ index_meta' = index_meta]_vars

\* A rebuild over one record has replaced an index that lacked its row.
C18_Witness ==
    /\ store_result # None
    /\ store_result[1].op = "rebuild_index"
    /\ store_result[1].ok
    /\ store_result[1].count = 1
    /\ RowCount(records_fts) = 1
    /\ index_meta = Some([recordCount |-> "1"])

\* Every row names a structured file and every structured file has exactly
\* one row, keyed by its own path.
RowsMirrorFiles ==
    /\ \A r \in DOMAIN records_fts : r.json_path \in JsonFiles(store_files)
    /\ \A q \in JsonFiles(store_files) : RowsFor(q) = 1

\* C19: from an index just rebuilt from the record files, after any
\* sequence of upsert_record and delete_record calls the json_path keys of
\* the full-text table are the structured record files on disk, one row
\* per file.
C19_IndexParity ==
    (index_db /\ since_rebuild = Some(TRUE)) =>
        /\ {r.json_path : r \in DOMAIN records_fts} = JsonFiles(store_files)
        /\ \A r \in DOMAIN records_fts : RowsFor(r.json_path) = 1

\* After the rebuild a record was moved by an upsert with a prior path.
C19_Witness ==
    /\ index_db
    /\ since_rebuild = Some(TRUE)
    /\ UpsertWithPrior
    /\ store_result[1].prior_existed
    /\ store_result[1].record[1].json_path[1] # store_result[1].previous_json_path[1]
    /\ RowCount(records_fts) = 1

\* C20: from an index just rebuilt, after any sequence of record
\* mutations, the syncs and the batch pull included, every index row names
\* an existing structured file and every structured file has exactly one
\* row keyed by its own path.
C20_EveryMutationMirrored ==
    (index_db /\ since_rebuild # None) => RowsMirrorFiles

\* The commands that may create the index database file: an explicit
\* rebuild and a search with a non-empty query.
CreatedByRebuildOrSearch ==
    /\ store_result' # None
    /\ store_result' # store_result
    /\ store_result'[1].op \in {"rebuild_index", "search_records"}

\* Every structured record file of the home, a run's writeback record
\* included, has a full-text row.
RowsPopulatedFromFiles ==
    \A q \in JsonFiles(store_files) \cup {p \in record_files : p[4] = "json"} :
        RowsFor(q) >= 1

\* C21: the index database file comes to exist only by an explicit rebuild
\* or by a search with a non-empty query, and whenever the file exists its
\* full-text rows were populated from the record files.
C21_LazyIndexCreation ==
    /\ [][(~index_db /\ index_db') => CreatedByRebuildOrSearch]_vars
    /\ [](index_db => RowsPopulatedFromFiles)

\* A search_records call has returned.
SearchReturned ==
    /\ store_result # None
    /\ store_result[1].op = "search_records"

\* The records of a sequence.
Range(items) == {items[i] : i \in 1..Len(items)}

\* C22: a search whose trimmed query is empty is served from the record
\* files with indexed = false and leaves the index as it was; a search
\* with a non-empty query is served by the full-text index with indexed =
\* true unless the index query fails, and then by the substring scan of
\* the record files with indexed = false; at most limit records (limit
\* clamped to 1..1000) are returned, and none when offset >= total.
C22_SearchPathSelection ==
    [][(store_result' # None /\ store_result'[1].op = "search_records") =>
           LET r       == store_result'[1]
               q       == TrimChars(UnwrapOr(r.query, <<>>))
               given   == UnwrapOr(r.limit, 200)
               limit   == Maximum({1, Minimum({given, 1000})})
               offset  == UnwrapOr(r.offset, 0)
               failed  == r.fault # "none" \/ MatchSyntaxError(q)
               on_disk == Range(load_records(store_files))
           IN  /\ q = <<>> =>
                      /\ ~r.indexed
                      /\ Range(r.records) \subseteq on_disk
                      /\ UNCHANGED <<index_db, records_fts, index_meta>>
               /\ q # <<>> =>
                      /\ r.indexed <=> ~failed
                      /\ r.indexed =>
                             Range(r.records) \subseteq
                                 {RecordOfRow(row) : row \in DOMAIN records_fts'}
                      /\ ~r.indexed => Range(r.records) \subseteq on_disk
               /\ Len(r.records) <= limit
               /\ offset >= r.total => r.records = <<>>]_vars

\* A search with a non-empty query whose index query failed was served by
\* the scan of two matching record files, cut to the one record of a limit
\* of 0 clamped to 1.
C22_Witness ==
    /\ SearchReturned
    /\ TrimChars(UnwrapOr(store_result[1].query, <<>>)) # <<>>
    /\ store_result[1].fault = "query"
    /\ ~store_result[1].indexed
    /\ store_result[1].limit = Some(0)
    /\ store_result[1].total = 2
    /\ Len(store_result[1].records) = 1

(* ---------------------------------------------------------------------- *)
(* Properties of the Notion sync commands                                  *)
(* ---------------------------------------------------------------------- *)

\* The fields of a record that a sync may overwrite.
Content(record) == <<record.record_type, record.title, record.final_body>>

\* The record has changed since its last sync: it has no stored hash or
\* its content is not the content that was hashed.
ChangedLocally(record) ==
    \/ record.notion_last_synced_hash = None
    \/ record.notion_last_synced_hash[1] # Content(record)

\* The page has changed since the record's last sync: it has a
\* last_edited_time that is not the stored one.
ChangedRemotely(record, remote) ==
    /\ remote.last_edited_time # None
    /\ remote.last_edited_time # record.notion_last_edited_time

\* The command `op` has just returned Ok.
ReturnsOk(op) ==
    /\ store_result' # None
    /\ store_result'[1].op = op
    /\ store_result'[1].ok

\* The record of a path has taken the content of the page and is marked
\* synced.
TookRemote(after, remote) ==
    /\ after.record_type = normalize_record_type(remote.record_type)
    /\ after.title = remote.title
    /\ after.final_body = remote.final_body
    /\ after.notion_sync_status = "SUCCESS"
    /\ after.notion_error = None
    /\ after.notion_last_edited_time = remote.last_edited_time
    /\ after.notion_last_synced_hash = Some(Content(after))

\* C23: sync_record_bidirectional on a record linked to a page that can be
\* fetched does, by (local_changed, remote_changed, policy): both and
\* manual, status CONFLICT with action conflict_manual and nothing else;
\* both and remote wins, the remote content applied and the record marked
\* synced; both and local wins, a push of the local record; only local, a
\* push; only remote, the remote content applied and the record marked
\* synced; neither, the record marked synced with action noop.
C23_BidirectionalMatrix ==
    [][ReturnsOk("sync_record_bidirectional") =>
           LET r      == store_result'[1]
               path   == r.given[1]
               before == load_record_by_json_path(store_files, path)
               after  == load_record_by_json_path(store_files', path)
               out    == r.results[1]
               page   == before.notion_page_id
           IN  (/\ page # None
                /\ page[1] \in DOMAIN r.env.remote
                /\ page[1] \notin r.env.unreachable) =>
               LET remote == r.env.remote[page[1]]
                   local_changed  == ChangedLocally(before)
                   remote_changed == ChangedRemotely(before, remote)
                   pushed == /\ r.requests # <<>>
                             /\ \A k \in DOMAIN r.requests :
                                    r.requests[k].json_path = path
                             /\ Content(after) = Content(before)
               IN  /\ (local_changed /\ remote_changed
                          /\ r.conflict_strategy = "manual") =>
                          /\ out.action = "conflict_manual"
                          /\ out.conflict
                          /\ out.notion_sync_status = "CONFLICT"
                          /\ after.notion_sync_status = "CONFLICT"
                          /\ Content(after) = Content(before)
                          /\ r.requests = <<>>
                   /\ (local_changed /\ remote_changed
                          /\ r.conflict_strategy = "notion_wins") =>
                          /\ out.action = "pulled_notion_conflict_notion_wins"
                          /\ TookRemote(after, remote)
                          /\ r.requests = <<>>
                   /\ (local_changed /\ remote_changed
                          /\ r.conflict_strategy = "local_wins") =>
                          /\ out.action \in {"pushed_local_conflict_local_wins",
                                             "push_failed"}
                          /\ pushed
                   /\ (local_changed /\ ~remote_changed) =>
                          /\ out.action \in {"pushed_local", "push_failed"}
                          /\ pushed
                   /\ (~local_changed /\ remote_changed) =>
                          /\ out.action = "pulled_notion"
                          /\ TookRemote(after, remote)
                          /\ r.requests = <<>>
                   /\ (~local_changed /\ ~remote_changed) =>
                          /\ out.action = "noop"
                          /\ out.notion_sync_status = "SUCCESS"
                          /\ after.notion_sync_status = "SUCCESS"
                          /\ Content(after) = Content(before)
                          /\ r.requests = <<>>]_vars

\* A bidirectional sync under remote wins has replaced the content of a
\* record that had changed on both sides.
C23_Witness ==
    /\ store_result # None
    /\ store_result[1].op = "sync_record_bidirectional"
    /\ store_result[1].ok
    /\ store_result[1].conflict_strategy = "notion_wins"
    /\ store_result[1].results[1].action = "pulled_notion_conflict_notion_wins"
    /\ store_files[store_result[1].given[1]].final_body = "remote text"

\* A Notion command has just returned Ok.
SyncReturnsOk ==
    /\ store_result' # None
    /\ store_result'[1].op \in {"sync_record_to_notion",
                                "sync_record_bidirectional",
                                "sync_records_to_notion",
                                "sync_records_bidirectional",
                                "pull_records_from_notion"}
    /\ store_result'[1].ok

\* The page ids of the pages that a pull was given.
PageIdsOf(pages) == {pages[i].remote.page_id : i \in DOMAIN pages}

\* The record files that a returned command was run on: the files of its
\* json_paths, and for a pull the files of the records linked to one of
\* its pages.
RunOn(r, d) ==
    IF r.op = "pull_records_from_notion"
    THEN {q \in JsonFiles(d) :
             /\ d[q].notion_page_id # None
             /\ d[q].notion_page_id[1] \in PageIdsOf(r.given)}
    ELSE {r.given[i] : i \in DOMAIN r.given} \cap JsonFiles(d)

\* The record of file q, linked to a page of the environment, has changed
\* since its last sync and so has the page.
ChangedOnBothSides(d, q, env) ==
    LET record == load_record_by_json_path(d, q) IN
    /\ record.notion_page_id # None
    /\ record.notion_page_id[1] \in DOMAIN env.remote
    /\ ChangedLocally(record)
    /\ ChangedRemotely(record, env.remote[record.notion_page_id[1]])

\* The two files of the record of q can be written.
Writable(env, q) ==
    /\ q \notin env.unwritable
    /\ with_extension(q, "md") \notin env.unwritable

\* The file q keeps its content, is marked CONFLICT and no request was sent
\* for it.
KeptAsConflict(r, d, after, q) ==
    /\ q \in JsonFiles(after)
    /\ Content(load_record_by_json_path(after, q))
           = Content(load_record_by_json_path(d, q))
    /\ after[q].notion_sync_status = "CONFLICT"
    /\ \A k \in DOMAIN r.requests : r.requests[k].json_path # q

\* C24: a sync command run with policy manual on a record that has changed
\* locally and whose page has changed leaves the record with status
\* CONFLICT and its content fields as they were, and sends no PATCH and no
\* POST for it, whether or not the page could be fetched (the files of the
\* record being writable).
C24_ManualConflictSafety ==
    [][(SyncReturnsOk /\ store_result'[1].conflict_strategy = "manual") =>
           LET r == store_result'[1] IN
           \A q \in RunOn(r, store_files) :
               (/\ ChangedOnBothSides(store_files, q, r.env)
                /\ Writable(r.env, q)) =>
                   KeptAsConflict(r, store_files, store_files', q)]_vars

\* The same, for the commands whose fetch of the page is answered.
C24_WhenFetched ==
    [][(SyncReturnsOk /\ store_result'[1].conflict_strategy = "manual") =>
           LET r == store_result'[1] IN
           \A q \in RunOn(r, store_files) :
               (/\ ChangedOnBothSides(store_files, q, r.env)
                /\ Writable(r.env, q)
                /\ store_files[q].notion_page_id[1] \notin r.env.unreachable) =>
                   KeptAsConflict(r, store_files, store_files', q)]_vars

\* The record files linked to the page of id page_id.
LinkedTo(d, page_id) ==
    {q \in JsonFiles(d) : d[q].notion_page_id = Some(page_id)}

\* C25: when pull_records_from_notion reads a page that a local record
\* carries, and the record has changed since its last sync while the page
\* has not: under manual the record becomes PENDING with the error "Local-
\* only changes detected. Pull skipped by manual strategy.", keeps its
\* content and no request is sent for it; under local_wins the record is
\* pushed; under notion_wins the record takes the content of the page.
C25_PullLocalOnlyChange ==
    [][ReturnsOk("pull_records_from_notion") =>
           LET r == store_result'[1] IN
           \A i \in DOMAIN r.given :
           \A q \in LinkedTo(store_files, r.given[i].remote.page_id) :
               LET before == load_record_by_json_path(store_files, q)
                   after  == load_record_by_json_path(store_files', q)
                   remote == r.given[i].remote
                   sent   == {k \in DOMAIN r.requests :
                                 r.requests[k].json_path = q}
               IN  (/\ r.given[i].readable
                    /\ ChangedLocally(before)
                    /\ ~ChangedRemotely(before, remote)) =>
                   /\ r.conflict_strategy = "manual" =>
                          /\ after.notion_sync_status = "PENDING"
                          /\ after.notion_error = Some(
                                 "Local-only changes detected. Pull skipped by manual strategy.")
                          /\ Content(after) = Content(before)
                          /\ sent = {}
                          /\ r.results[i].action = "local_only_pending"
                          /\ ~r.results[i].conflict
                   /\ r.conflict_strategy = "local_wins" =>
                          /\ sent # {}
                          /\ Content(after) = Content(before)
                          /\ r.results[i].action \in
                                 {"pushed_local_local_only_change", "push_failed"}
                   /\ r.conflict_strategy = "notion_wins" =>
                          /\ TookRemote(after, [remote EXCEPT
                                 !.last_edited_time =
                                     IF @ = None THEN before.notion_last_edited_time
                                     ELSE @])
                          /\ sent = {}
                          /\ r.results[i].action = "pulled_notion_local_only_change"]_vars

\* A pull under manual has left a record that changed only locally as
\* PENDING.
C25_Witness ==
    /\ store_result # None
    /\ store_result[1].op = "pull_records_from_notion"
    /\ store_result[1].ok
    /\ store_result[1].conflict_strategy = "manual"
    /\ \E i \in DOMAIN store_result[1].results :
          /\ store_result[1].results[i].action = "local_only_pending"
          /\ store_result[1].results[i].json_path \in DOMAIN store_files
          /\ store_files[store_result[1].results[i].json_path].notion_sync_status
                 = "PENDING"
          /\ store_files[store_result[1].results[i].json_path].final_body
                 = "local text"

\* A batch command has returned its NotionBatchSyncResult.
BatchReturned ==
    /\ store_result # None
    /\ store_result[1].op \in {"sync_records_to_notion",
                               "sync_records_bidirectional",
                               "pull_records_from_notion"}
    /\ store_result[1].ok

\* C26: in the result of a batch push, a batch bidirectional sync or a
\* batch pull, total is the number of per-item results, total = success +
\* failed, every conflict is counted in failed as well, and success counts
\* the results that are no conflict and have sync status SUCCESS.
C26_BatchTallies ==
    BatchReturned =>
        LET r == store_result[1]
            conflicting == {i \in DOMAIN r.results : r.results[i].conflict}
            succeeded   == {i \in DOMAIN r.results :
                               /\ ~r.results[i].conflict
                               /\ r.results[i].notion_sync_status = "SUCCESS"}
        IN  /\ r.total = Len(r.results)
            /\ r.total = r.success + r.failed
            /\ r.conflicts = Cardinality(conflicting)
            /\ r.conflicts <= r.failed
            /\ r.success = Cardinality(succeeded)
            /\ r.failed = Cardinality(DOMAIN r.results \ succeeded)

\* A batch has returned one conflict and one success.
C26_Witness ==
    /\ BatchReturned
    /\ store_result[1].total = 2
    /\ store_result[1].conflicts = 1
    /\ store_result[1].success = 1
    /\ store_result[1].failed = 1

\* A batch command has ended, with Ok or with Err.
BatchEnded ==
    /\ store_result # None
    /\ store_result[1].op \in {"sync_records_to_notion",
                               "sync_records_bidirectional",
                               "pull_records_from_notion"}

\* C27: a batch sync over n json_paths and a batch pull over n pages
\* return Ok with total = n whatever fails for one of the items: the read
\* of a page, a push, or the write of the record's files.
C27_NoShortCircuit ==
    BatchEnded =>
        /\ store_result[1].ok
        /\ store_result[1].total = Len(store_result[1].given)

\* The same, leaving out the pulls that cannot write a file.
C27_UnlessPullCannotWrite ==
    (/\ BatchEnded
     /\ \/ store_result[1].op # "pull_records_from_notion"
        \/ store_result[1].env.unwritable = {}) =>
        /\ store_result[1].ok
        /\ store_result[1].total = Len(store_result[1].given)

\* The pages of a returned pull that were read and that no local record
\* carried before the pull.
NewPages(r, d) ==
    {i \in DOMAIN r.given :
        /\ r.given[i].readable
        /\ LinkedTo(d, r.given[i].remote.page_id) = {}}

\* C28: pull_records_from_notion creates, for every page that it reads and
\* that no local record carries, exactly one record with sync status
\* SUCCESS, in two files that did not exist before the pull, under the
\* generated stem or that stem followed by _1, _2, ...; two new pages get
\* different files, and every file of a record that is linked to no page
\* of the pull is left as it was.
C28_PullCreatesWithoutOverwriting ==
    [][ReturnsOk("pull_records_from_notion") =>
           LET r   == store_result'[1]
               new == NewPages(r, store_files)
               pulled == UNION {LinkedTo(store_files, r.given[i].remote.page_id) :
                                   i \in DOMAIN r.given}
           IN  /\ \A i \in new :
                      LET q      == r.results[i].json_path
                          remote == r.given[i].remote
                          base   == generate_filename(
                                        normalize_record_type(remote.record_type),
                                        remote.title)
                      IN  /\ r.results[i].action = "created_local_from_notion"
                          /\ r.results[i].notion_sync_status = "SUCCESS"
                          /\ q \notin DOMAIN store_files
                          /\ with_extension(q, "md") \notin DOMAIN store_files
                          /\ q \in DOMAIN store_files'
                          /\ with_extension(q, "md") \in DOMAIN store_files'
                          /\ q[4] = "json"
                          /\ q[2] = record_dir_by_type(
                                        normalize_record_type(remote.record_type))
                          /\ \/ q[3] = base
                             \/ \E idx \in 1..(MaxBatch + MaxStored) :
                                    q[3] = Append(base, idx)
                          /\ store_files'[q].notion_sync_status = "SUCCESS"
                          /\ store_files'[q].final_body = remote.final_body
                          /\ LinkedTo(store_files', remote.page_id) = {q}
               /\ \A i, j \in new :
                      i # j => r.results[i].json_path # r.results[j].json_path
               /\ Cardinality(JsonFiles(store_files') \ JsonFiles(store_files))
                      = Cardinality(new)
               /\ \A q \in DOMAIN store_files :
                      (/\ q \notin pulled
                       /\ with_extension(q, "json") \notin pulled) =>
                          /\ q \in DOMAIN store_files'
                          /\ store_files'[q] = store_files[q]]_vars

\* A pull has created two records of one type and title beside a record of
\* the same stem, under the suffixes _1 and _2.
C28_Witness ==
    /\ store_result # None
    /\ store_result[1].op = "pull_records_from_notion"
    /\ store_result[1].ok
    /\ store_result[1].total = 2
    /\ LocalB \in DOMAIN store_files
    /\ store_result[1].results[1].action = "created_local_from_notion"
    /\ store_result[1].results[2].action = "created_local_from_notion"
    /\ store_result[1].results[1].json_path = [LocalB EXCEPT ![3] = Append(@, 1)]
    /\ store_result[1].results[2].json_path = [LocalB EXCEPT ![3] = Append(@, 2)]
    /\ store_result[1].results[2].json_path \in DOMAIN store_files

\* C29: after upsert, delete, sync and pull commands that returned Ok,
\* every persisted record has its structured file and its rendered file
\* under one stem in the directory that record_dir_by_type gives for the
\* record's own type, a pull or sync under remote wins that changes the
\* type included.
C29_TypeDirectoryInvariant ==
    (store_result # None => store_result[1].ok) =>
        \A q \in JsonFiles(store_files) :
            LET record == load_record_by_json_path(store_files, q) IN
            /\ q[1] = "records"
            /\ q[2] = record_dir_by_type(record.record_type)
            /\ with_extension(q, "md") \in DOMAIN store_files

\* The same, for the records whose type no pull or sync has replaced:
\* the files lie in the directory of the type named by the stem.
C29_UnlessTypePulled ==
    (store_result # None => store_result[1].ok) =>
        \A q \in JsonFiles(store_files) :
            LET record == load_record_by_json_path(store_files, q) IN
            record.record_type = file_stem(q)[2] =>
                /\ q[1] = "records"
                /\ q[2] = record_dir_by_type(record.record_type)
                /\ with_extension(q, "md") \in DOMAIN store_files

(* ---------------------------------------------------------------------- *)
(* Application settings: normalize_settings, load_settings, save_settings  *)
(* ---------------------------------------------------------------------- *)

\* n copies of the character c.
Repeat(c, n) == [i \in 1..n |-> c]

\* Most characters of a slug.
SlugChars == 48

\* char::is_alphanumeric on the characters of the model.
IsAlphanumeric(c) == c \notin {"-", "_", " ", "/", "."}

\* while slug.contains("--") { slug = slug.replace("--", "-") }
RECURSIVE CollapseDashes(_, _, _)
CollapseDashes(cs, i, out) ==
    IF i > Len(cs) THEN out
    ELSE IF cs[i] = "-" /\ out # <<>> /\ out[Len(out)] = "-"
    THEN CollapseDashes(cs, i + 1, out)
    ELSE CollapseDashes(cs, i + 1, Append(out, cs[i]))

\* str::trim_matches('-')
RECURSIVE TrimDashes(_)
TrimDashes(cs) ==
    IF cs = <<>> THEN cs
    ELSE IF cs[1] = "-" THEN TrimDashes(Tail(cs))
    ELSE IF cs[Len(cs)] = "-" THEN TrimDashes(SubSeq(cs, 1, Len(cs) - 1))
    ELSE cs

\* slugify, character by character.
slugify_chars(value) ==
    LET lowered == LowerChars(value)
        slug    == [i \in 1..Len(lowered) |->
                       IF \/ IsAlphanumeric(lowered[i])
                          \/ lowered[i] = "-"
                          \/ lowered[i] = "_"
                       THEN lowered[i] ELSE "-"]
        trimmed == TrimDashes(CollapseDashes(slug, 1, <<>>))
    IN  IF trimmed = <<>> THEN <<"u", "n", "t", "i", "t", "l", "e", "d">>
        ELSE IF Len(trimmed) > SlugChars THEN SubSeq(trimmed, 1, SlugChars)
        ELSE trimmed

\* "profile-"
ProfilePrefix == <<"p", "r", "o", "f", "i", "l", "e", "-">>

\* "Untitled Profile"
UntitledProfile ==
    <<"U", "n", "t", "i", "t", "l", "e", "d", " ",
      "P", "r", "o", "f", "i", "l", "e">>

\* profile.id after the dedup against seen_ids; now is what
\* Local::now().timestamp_millis() prints.
DedupedId(stamped, seen_ids, now) ==
    IF stamped \in seen_ids THEN stamped \o <<"-">> \o now ELSE stamped

\* profile.id when slugify has given nothing.
StampedId(slugged, now) ==
    IF slugged = <<>> THEN ProfilePrefix \o now ELSE slugged

\* profile.default_provider
ProviderOrLocal(provider) == IF provider = "" THEN "local" ELSE provider

\* The body of `for profile in &mut settings.profiles`.
NormalizedProfile(profile, seen_ids, now) ==
    [id |-> DedupedId(
                StampedId(IF TrimChars(profile.id) = <<>>
                          THEN ProfilePrefix \o slugify_chars(profile.name)
                          ELSE slugify_chars(profile.id),
                          now),
                seen_ids, now),
     name |-> IF TrimChars(profile.name) = <<>> THEN UntitledProfile
              ELSE profile.name,
     central_home |-> Trim(profile.central_home),
     default_provider |-> ProviderOrLocal(TrimLower(profile.default_provider)),
     default_model |-> IF Trim(profile.default_model) = ""
                       THEN "gpt-4.1-mini" ELSE profile.default_model]

RECURSIVE NormalizedProfiles(_, _, _, _, _)
NormalizedProfiles(profiles, i, seen_ids, out, now) ==
    IF i > Len(profiles) THEN out
    ELSE LET profile == NormalizedProfile(profiles[i], seen_ids, now) IN
         NormalizedProfiles(profiles, i + 1, seen_ids \cup {profile.id},
                            Append(out, profile), now)

\* normalize_provider_type
normalize_provider_type(value) ==
    IF TrimLower(value) = "web" THEN "web" ELSE "cli"

\* The items of a list that are not "".
RECURSIVE NonEmpty(_)
NonEmpty(items) ==
    IF items = <<>> THEN <<>>
    ELSE IF items[1] = "" THEN NonEmpty(Tail(items))
    ELSE <<items[1]>> \o NonEmpty(Tail(items))

\* normalize_provider_capabilities
normalize_provider_capabilities(input) ==
    LET cleaned == NonEmpty([i \in 1..Len(input) |-> TrimLower(input[i])])
        deduped == dedup_non_empty(cleaned)
    IN  IF deduped = <<>> THEN <<"debate">> ELSE deduped

\* default_debate_provider_configs
default_debate_provider_configs ==
    [id \in DefaultProviderIds |->
        [id |-> id,
         provider_type |-> IF id \in {"codex-cli", "gemini-cli", "claude-cli"}
                           THEN "cli" ELSE "web",
         enabled |-> TRUE,
         capabilities |-> IF id \in {"codex-cli", "gemini-cli", "claude-cli"}
                          THEN <<"debate", "cli-execution", "structured-output">>
                          ELSE <<"debate", "web-automation", "structured-output">>]]

\* The provider ids of the model in the order of str::cmp.
ProviderIdOrder ==
    <<"chatgpt-web", "claude-cli", "claude-web", "codex-cli", "gemini-cli",
      "gemini-web", "my-cli">>

\* `for mut item in registry.providers` on the map by_id.
RECURSIVE RegisteredFrom(_, _, _)
RegisteredFrom(providers, i, by_id) ==
    IF i > Len(providers) THEN by_id
    ELSE LET item == providers[i]
             id   == TrimLower(item.id)
         IN  IF id = "" THEN RegisteredFrom(providers, i + 1, by_id)
             ELSE
             LET given == IF item.capabilities # <<>> THEN item.capabilities
                          ELSE IF id \in DOMAIN by_id THEN by_id[id].capabilities
                          ELSE <<"debate">>
                 next  == [id |-> id,
                           provider_type |-> normalize_provider_type(item.provider_type),
                           enabled |-> item.enabled,
                           capabilities |-> normalize_provider_capabilities(given)]
             IN  RegisteredFrom(providers, i + 1,
                                [k \in DOMAIN by_id \cup {id} |->
                                    IF k = id THEN next ELSE by_id[k]])

\* The values of by_id sorted by id.
RECURSIVE SortedById(_, _)
SortedById(by_id, i) ==
    IF i > Len(ProviderIdOrder) THEN <<>>
    ELSE IF ProviderIdOrder[i] \in DOMAIN by_id
    THEN <<by_id[ProviderIdOrder[i]]>> \o SortedById(by_id, i + 1)
    ELSE SortedById(by_id, i + 1)

\* normalize_provider_registry_settings
normalize_provider_registry_settings(providers) ==
    SortedById(RegisteredFrom(providers, 1, default_debate_provider_configs), 1)

default_poll_interval == 8

default_notebooklm_command == "uvx"

default_notebooklm_args == <<"kof-notebooklm-mcp">>

\* normalize_settings; ui_preferences, which it does not touch, is left out.
normalize_settings(settings, now) ==
    LET profiles == NormalizedProfiles(settings.profiles, 1, {}, <<>>, now)
        active_missing ==
            \/ settings.active_profile_id = None
            \/ \A i \in DOMAIN profiles :
                   profiles[i].id # settings.active_profile_id[1]
        command == Trim(settings.notebooklm_command)
        args    == NonEmpty([i \in 1..Len(settings.notebooklm_args) |->
                                Trim(settings.notebooklm_args[i])])
    IN  [profiles |-> profiles,
         active_profile_id |->
             IF profiles = <<>> THEN None
             ELSE IF active_missing THEN Some(profiles[1].id)
             ELSE settings.active_profile_id,
         poll_interval_sec |-> IF settings.poll_interval_sec = 0
                               THEN default_poll_interval
                               ELSE settings.poll_interval_sec,
         notion_database_id |-> Trim(settings.notion_database_id),
         notebooklm_command |-> IF command = "" THEN default_notebooklm_command
                                ELSE command,
         notebooklm_args |-> IF args = <<>> THEN default_notebooklm_args
                             ELSE args,
         provider_registry |->
             normalize_provider_registry_settings(settings.provider_registry)]

\* AppSettings::default()
DefaultSettings ==
    [profiles |-> <<>>, active_profile_id |-> None,
     poll_interval_sec |-> default_poll_interval,
     notion_database_id |-> "",
     notebooklm_command |-> default_notebooklm_command,
     notebooklm_args |-> default_notebooklm_args,
     provider_registry |-> SortedById(default_debate_provider_configs, 1)]

\* load_settings: the default settings when there is no file, what
\* normalize_settings makes of the file otherwise.
load_settings(file, now) ==
    IF file = None THEN DefaultSettings ELSE normalize_settings(file[1], now)

\* get_app_settings
GetAppSettings(now) ==
    /\ settings_result' = Some([op |-> "get_app_settings", given |-> settings_file,
                                returned |-> load_settings(settings_file, now)])
    /\ UNCHANGED <<facade_vars, debate_vars, store_files, index_db, records_fts,
                   index_meta, store_result, since_rebuild, settings_file,
                   cli_vars, step_vars, creations>>

\* save_app_settings
SaveAppSettings(settings, now) ==
    LET saved == normalize_settings(settings, now) IN
    /\ settings_file' = Some(saved)
    /\ settings_result' = Some([op |-> "save_app_settings",
                                given |-> Some(settings),
                                returned |-> saved])
    /\ UNCHANGED <<facade_vars, debate_vars, store_files, index_db, records_fts,
                   index_meta, store_result, since_rebuild, cli_vars, step_vars,
                   creations>>

(* ---------------------------------------------------------------------- *)
(* Specification of the settings commands                                  *)
(* ---------------------------------------------------------------------- *)

\* Most profiles of the settings.
MaxProfiles == 3

\* Two readings of the clock in milliseconds, thirteen digits each.
Nows == {Repeat("1", 13), Repeat("2", 13)}

\* Profile ids: none, blank, a slug, a string to be slugged, one longer
\* than SlugChars whose character at SlugChars is a dash, one of SlugChars
\* characters, one longer than that.
ProfileIdInputs ==
    {<<>>, <<" ">>, <<"a">>, <<"A", " ", "b">>,
     Repeat("a", SlugChars - 1) \o <<"-", "b">>,
     Repeat("a", SlugChars),
     Repeat("a", SlugChars + 1)}

\* Profile names: none, a short one, one whose slug leaves no room for
\* "profile-" within SlugChars.
ProfileNameInputs ==
    {<<>>, <<"A", " ", "b">>, Repeat("b", SlugChars - 7)}

ProfileInputs ==
    {[id |-> id, name |-> <<"A", " ", "b">>, central_home |-> "  ",
      default_provider |-> " Notion ", default_model |-> "  "] :
        id \in ProfileIdInputs}
    \cup
    {[id |-> id, name |-> name, central_home |-> "  ",
      default_provider |-> " Notion ", default_model |-> "  "] :
        id \in {<<>>, <<" ">>}, name \in ProfileNameInputs}
    \cup
    {[id |-> <<"a">>, name |-> <<"A", " ", "b">>, central_home |-> "/home",
      default_provider |-> "", default_model |-> " gpt-4.1 "]}

\* The profiles of a settings file: every list shorter than MaxProfiles,
\* and the lists of MaxProfiles copies of one profile.
ProfileListInputs ==
    UNION {[1..n -> ProfileInputs] : n \in 0..(MaxProfiles - 1)}
    \cup {[i \in 1..MaxProfiles |-> profile] : profile \in ProfileInputs}

\* The provider registry entries of a settings file.
ProviderInputs ==
    <<<<>>,
     <<[id |-> " My-CLI ", provider_type |-> " WEB ", enabled |-> TRUE,
        capabilities |-> <<>>]>>,
     <<[id |-> "gemini-web", provider_type |-> "web", enabled |-> FALSE,
        capabilities |-> <<" Debate ", "debate", "  ">>],
       [id |-> "  ", provider_type |-> "cli", enabled |-> TRUE,
        capabilities |-> <<>>]>>,
     <<[id |-> "my-cli", provider_type |-> "cli", enabled |-> TRUE,
        capabilities |-> <<"  ">>],
       [id |-> " My-CLI ", provider_type |-> "bogus", enabled |-> FALSE,
        capabilities |-> <<" Debate ">>]>> >>

\* The fields of the settings beside the profiles.
OtherInputs ==
    {[poll_interval_sec |-> 0, notion_database_id |-> "  ",
      notebooklm_command |-> "  ", notebooklm_args |-> <<>>,
      provider_registry |-> ProviderInputs[1]],
     [poll_interval_sec |-> 30, notion_database_id |-> " gpt-4.1 ",
      notebooklm_command |-> " critic ", notebooklm_args |-> <<"  ">>,
      provider_registry |-> ProviderInputs[2]],
     [poll_interval_sec |-> 8, notion_database_id |-> "",
      notebooklm_command |-> "uvx",
      notebooklm_args |-> <<" critic ", "  ", "uvx">>,
      provider_registry |-> ProviderInputs[3]],
     [poll_interval_sec |-> 8, notion_database_id |-> "",
      notebooklm_command |-> "uvx", notebooklm_args |-> <<"uvx">>,
      provider_registry |-> ProviderInputs[4]]}

ActiveProfileInputs == {None, Some(<<"a">>), Some(<<"A", " ", "b">>)}

SettingsInputs ==
    {[profiles |-> profiles, active_profile_id |-> active,
      poll_interval_sec |-> other.poll_interval_sec,
      notion_database_id |-> other.notion_database_id,
      notebooklm_command |-> other.notebooklm_command,
      notebooklm_args |-> other.notebooklm_args,
      provider_registry |-> other.provider_registry] :
        profiles \in ProfileListInputs, active \in ActiveProfileInputs,
        other \in OtherInputs}

\* The settings that the frontend sends back: what the last command
\* returned, as it is or with the first profile repeated at the end.
Edited(settings) ==
    {settings}
    \cup {[settings EXCEPT !.profiles = Append(@, @[1])] :
             x \in IF settings.profiles # <<>>
                      /\ Len(settings.profiles) < MaxProfiles
                   THEN {1} ELSE {}}

\* A settings file written by hand or by an earlier version, or no file.
InitSettings ==
    /\ InitFacade
    /\ IdleDebate
    /\ store_files = <<>>
    /\ index_db = FALSE
    /\ records_fts = <<>>
    /\ index_meta = None
    /\ store_result = None
    /\ since_rebuild = None
    /\ settings_file \in {None} \cup {Some(s) : s \in SettingsInputs}
    /\ settings_result = None
    /\ IdleCli
    /\ IdleSteps

NextSettings ==
    \/ \E now \in Nows : GetAppSettings(now)
    \/ \E now \in Nows :
          /\ settings_result # None
          /\ \E s \in Edited(settings_result[1].returned) :
                 SaveAppSettings(s, now)

SpecSettings == InitSettings /\ [][NextSettings]_vars

(* ---------------------------------------------------------------------- *)
(* Properties of the settings                                              *)
(* ---------------------------------------------------------------------- *)

\* C30: normalize_settings leaves what it returned as it is, whatever the
\* ids and names of the profiles, the active profile id and the provider
\* registry of the settings it was given.
C30_NormalizeIdempotent ==
    settings_result # None =>
        \A now \in Nows :
            normalize_settings(settings_result[1].returned, now)
                = settings_result[1].returned

\* The same, for the returned settings whose profile ids are slugs, each
\* carried by one profile.
C30_WhenIdsAreSlugs ==
    (/\ settings_result # None
     /\ LET profiles == settings_result[1].returned.profiles IN
        /\ \A i \in DOMAIN profiles : slugify_chars(profiles[i].id) = profiles[i].id
        /\ \A i, j \in DOMAIN profiles : i # j => profiles[i].id # profiles[j].id) =>
        \A now \in Nows :
            normalize_settings(settings_result[1].returned, now)
                = settings_result[1].returned

\* The ids of a list of entries are pairwise distinct.
DistinctIds(entries) ==
    \A i, j \in DOMAIN entries : i # j => entries[i].id # entries[j].id

\* The provider registry has one entry per id and holds the providers of
\* default_debate_provider_configs.
RegistryWellFormed(providers) ==
    /\ DistinctIds(providers)
    /\ DefaultProviderIds \subseteq {providers[i].id : i \in DOMAIN providers}

\* C31: in the settings that get_app_settings reads from a file and that
\* save_app_settings returns, every profile id is non-empty, no two profiles
\* have the same id, also when all the profiles of the input share one id
\* and the clock gives one reading for all of them, and the provider
\* registry has one entry per id and holds the six default providers.
C31_UniqueIds ==
    settings_result # None =>
        LET returned == settings_result[1].returned IN
        /\ \A i \in DOMAIN returned.profiles : returned.profiles[i].id # <<>>
        /\ DistinctIds(returned.profiles)
        /\ RegistryWellFormed(returned.provider_registry)

\* The same without the distinctness of the profile ids: what holds for
\* every input.
C31_NonEmptyIdsAndRegistry ==
    settings_result # None =>
        LET returned == settings_result[1].returned IN
        /\ \A i \in DOMAIN returned.profiles : returned.profiles[i].id # <<>>
        /\ RegistryWellFormed(returned.provider_registry)

\* The profile ids are distinct when the input has fewer than three
\* profiles.
C31_UpToTwoProfiles ==
    (/\ settings_result # None
     /\ settings_result[1].given # None
     /\ Len(settings_result[1].given[1].profiles) < 3) =>
        DistinctIds(settings_result[1].returned.profiles)

(* ---------------------------------------------------------------------- *)
(* run_cli_provider                                                        *)
(* ---------------------------------------------------------------------- *)

\* CliProviderConfig.model_fallbacks of the three providers.
model_fallbacks(provider_id) ==
    IF provider_id = "codex-cli" THEN <<"gpt-5-codex", "o3", "o4-mini">>
    ELSE <<>>

\* normalize_cli_model_arg
normalize_cli_model_arg(provider_id, model) ==
    LET trimmed == Trim(model) IN
    IF trimmed = "" THEN None
    ELSE IF ToLowercase(trimmed) \in {"auto", "default"} THEN None
    ELSE IF provider_id = "codex-cli" /\ ToLowercase(trimmed) = "codex" THEN None
    ELSE IF provider_id = "gemini-cli" /\ ToLowercase(trimmed) = "gemini" THEN None
    ELSE IF provider_id = "claude-cli" /\ ToLowercase(trimmed) = "claude" THEN None
    ELSE Some(trimmed)

\* The characters of what the command prints in the model.
StreamChars(s) ==
    CASE s = "Unknown Model" -> <<"U", "n", "k", "n", "o", "w", "n", " ", "M", "o", "d", "e", "l">>
      [] s = "model o9" -> <<"m", "o", "d", "e", "l", " ", "o", "9">>
      [] s = "Not Found" -> <<"N", "o", "t", " ", "F", "o", "u", "n", "d">>
      [] s = "login required" -> <<"l", "o", "g", "i", "n", " ", "r", "e", "q", "u", "i", "r", "e", "d">>
      [] OTHER -> <<>>

\* is_cli_model_error
is_cli_model_error(stdout, stderr) ==
    LET combined == LowerChars(StreamChars(stdout)) \o <<"\n">>
                    \o LowerChars(StreamChars(stderr))
    IN  \/ \E pattern \in {<<"i", "n", "v", "a", "l", "i", "d", " ", "m", "o", "d", "e", "l">>,
                          <<"u", "n", "k", "n", "o", "w", "n", " ", "m", "o", "d", "e", "l">>,
                          <<"u", "n", "s", "u", "p", "p", "o", "r", "t", "e", "d", " ", "m", "o", "d", "e", "l">>,
                          <<"n", "o", "t", " ", "a", " ", "s", "u", "p", "p", "o", "r", "t", "e", "d", " ", "m", "o", "d", "e", "l">>,
                          <<"i", "n", "a", "c", "c", "e", "s", "s", "i", "b", "l", "e", " ", "m", "o", "d", "e", "l">>} :
               Contains(combined, pattern)
        \/ /\ Contains(combined, <<"m", "o", "d", "e", "l">>)
           /\ \E pattern \in {<<"d", "o", "e", "s", " ", "n", "o", "t", " ", "e", "x", "i", "s", "t">>,
                             <<"d", "o", " ", "n", "o", "t", " ", "h", "a", "v", "e", " ", "a", "c", "c", "e", "s", "s">>,
                             <<"n", "o", "t", " ", "a", "v", "a", "i", "l", "a", "b", "l", "e">>,
                             <<"n", "o", "t", " ", "f", "o", "u", "n", "d">>} :
                  Contains(combined, pattern)


\* What run_cli_provider_once gives: Err when the command could not be
\* started or timed out, otherwise the exit status, the two streams and
\* the text that parse_output finds.
CliOutcome(started, success, stdout, stderr, text) ==
    [started |-> started, success |-> success, stdout |-> stdout,
     stderr |-> stderr, text |-> text]

\* Mutant: the fallback models are tried whatever the first failure was.
RetryModels_Always(provider_id, model_override, stdout, stderr) ==
    (IF model_override # None THEN <<None>> ELSE <<>>)
    \o [i \in 1..Len(model_fallbacks(provider_id)) |->
           Some(model_fallbacks(provider_id)[i])]

\* The fallback models from the i-th on, without the model of the call.
RECURSIVE FallbacksFrom(_, _, _)
FallbacksFrom(fallbacks, i, model_override) ==
    IF i > Len(fallbacks) THEN <<>>
    ELSE IF Some(fallbacks[i]) = model_override
    THEN FallbacksFrom(fallbacks, i + 1, model_override)
    ELSE <<Some(fallbacks[i])>> \o FallbacksFrom(fallbacks, i + 1, model_override)

\* retry_models after the first attempt has failed.
RetryModels(provider_id, model_override, stdout, stderr) ==
    IF is_cli_model_error(stdout, stderr)
    THEN (IF model_override # None THEN <<None>> ELSE <<>>)
         \o FallbacksFrom(model_fallbacks(provider_id), 1, model_override)
    ELSE <<>>

\* Ok(text) or Err of run_cli_provider.
CliOk(text) == [ok |-> TRUE, value |-> text]

CliErr(error) == [ok |-> FALSE, value |-> error]

\* What an attempt that was started and exited with success returns.
SuccessReturn(outcome, empty_error) ==
    IF outcome.text # None THEN CliOk(outcome.text[1]) ELSE CliErr(empty_error)

\* run_cli_provider is called.
RunCliProvider(provider_id, model) ==
    /\ cli_pc = "idle"
    /\ cli_pc' = "first"
    /\ cli_call' = Some([provider_id |-> provider_id, model |-> model])
    /\ cli_attempts' = <<>>
    /\ cli_retry_models' = <<>>
    /\ cli_return' = None
    /\ UNCHANGED <<facade_vars, debate_vars, store_files, index_db, records_fts,
                   index_meta, store_result, since_rebuild, settings_vars,
                   step_vars, creations>>

\* The attempt with the model of the call, and what follows it up to the
\* loop over retry_models.
FirstAttempt(outcome) ==
    /\ cli_pc = "first"
    /\ LET provider_id    == cli_call[1].provider_id
           model_override == normalize_cli_model_arg(provider_id,
                                                     cli_call[1].model)
           retry_models   == RetryModels(provider_id, model_override,
                                         outcome.stdout, outcome.stderr)
       IN  /\ cli_attempts' = <<[model |-> model_override, outcome |-> outcome]>>
           /\ IF ~outcome.started
              THEN /\ cli_return' = Some(CliErr("not run"))
                   /\ cli_pc' = "idle"
                   /\ UNCHANGED cli_retry_models
              ELSE IF outcome.success
              THEN /\ cli_return' = Some(SuccessReturn(outcome,
                                                       "returned empty output"))
                   /\ cli_pc' = "idle"
                   /\ UNCHANGED cli_retry_models
              ELSE IF retry_models = <<>>
              THEN /\ cli_return' = Some(CliErr("failed after retries"))
                   /\ cli_pc' = "idle"
                   /\ UNCHANGED cli_retry_models
              ELSE /\ cli_retry_models' = retry_models
                   /\ cli_pc' = "retry"
                   /\ UNCHANGED cli_return
    /\ UNCHANGED <<facade_vars, debate_vars, store_files, index_db, records_fts,
                   index_meta, store_result, since_rebuild, settings_vars,
                   cli_call, step_vars, creations>>

\* One turn of `for retry_model in retry_models`, and the end of the
\* function when the loop ends with it.
RetryAttempt(outcome) ==
    /\ cli_pc = "retry"
    /\ cli_attempts' = Append(cli_attempts, [model |-> Head(cli_retry_models),
                                             outcome |-> outcome])
    /\ cli_retry_models' = Tail(cli_retry_models)
    /\ IF ~outcome.started
       THEN /\ cli_return' = Some(CliErr("not run"))
            /\ cli_pc' = "idle"
       ELSE IF outcome.success
       THEN /\ cli_return' =
                   Some(SuccessReturn(outcome,
                                      "retry succeeded but returned empty output"))
            /\ cli_pc' = "idle"
       ELSE IF \/ ~is_cli_model_error(outcome.stdout, outcome.stderr)
               \/ Tail(cli_retry_models) = <<>>
       THEN /\ cli_return' = Some(CliErr("failed after retries"))
            /\ cli_pc' = "idle"
       ELSE /\ cli_pc' = "retry"
            /\ UNCHANGED cli_return
    /\ UNCHANGED <<facade_vars, debate_vars, store_files, index_db, records_fts,
                   index_meta, store_result, since_rebuild, settings_vars,
                   cli_call, step_vars, creations>>

(* ---------------------------------------------------------------------- *)
(* Specification of run_cli_provider                                       *)
(* ---------------------------------------------------------------------- *)

CliProviderIds == {"codex-cli", "gemini-cli", "claude-cli"}

\* Models: none, an alias of the provider default, the name of a provider,
\* a fallback model as it is, padded and in capitals, a model that is no
\* fallback.
CliModelInputs ==
    {"", "Auto", "Codex", "o3", " o3 ", "O3", "gpt-4.1"}

\* The command does not start or times out; exits with success and a text,
\* or with none; fails over the model, in one stream or across the two;
\* fails over something else.
CliOutcomes ==
    {CliOutcome(FALSE, FALSE, "", "", None),
     CliOutcome(TRUE, TRUE, "", "", Some("answer")),
     CliOutcome(TRUE, TRUE, "", "", None),
     CliOutcome(TRUE, FALSE, "", "Unknown Model", None),
     CliOutcome(TRUE, FALSE, "model o9", "Not Found", None),
     CliOutcome(TRUE, FALSE, "", "Not Found", None),
     CliOutcome(TRUE, FALSE, "", "login required", None)}

InitCli == InitFacade /\ IdleRun

NextCli ==
    \/ \E provider_id \in CliProviderIds, model \in CliModelInputs :
           RunCliProvider(provider_id, model)
    \/ \E outcome \in CliOutcomes : FirstAttempt(outcome)
    \/ \E outcome \in CliOutcomes : RetryAttempt(outcome)

\* run_cli_command_with_timeout kills the command at its deadline, so an
\* attempt that is due is made and ends.
SpecCli ==
    /\ InitCli
    /\ [][NextCli]_vars
    /\ WF_vars(\E outcome \in CliOutcomes : FirstAttempt(outcome))
    /\ WF_vars(\E outcome \in CliOutcomes : RetryAttempt(outcome))

(* ---------------------------------------------------------------------- *)
(* Properties of run_cli_provider                                          *)
(* ---------------------------------------------------------------------- *)

\* The attempt exited with a failure that is_cli_model_error recognises.
ModelFailure(attempt) ==
    /\ attempt.outcome.started
    /\ ~attempt.outcome.success
    /\ is_cli_model_error(attempt.outcome.stdout, attempt.outcome.stderr)

\* The attempt exited with a failure of another kind.
OtherFailure(attempt) ==
    /\ attempt.outcome.started
    /\ ~attempt.outcome.success
    /\ ~is_cli_model_error(attempt.outcome.stdout, attempt.outcome.stderr)

\* The call has returned.
CliReturned == cli_pc = "idle" /\ cli_return # None

\* The fallback models of the provider of the call in list order, without
\* the model that the first attempt passed.
OtherFallbacks ==
    LET NotRequested(m) == Some(m) # cli_attempts[1].model
        kept == SelectSeq(model_fallbacks(cli_call[1].provider_id), NotRequested)
    IN  [i \in 1..Len(kept) |-> Some(kept[i])]

\* The attempts after the first follow the plan: they are its first models
\* in order, each but the last failed over the model, and once the call has
\* returned the last one succeeded, failed otherwise, or ended the plan.
FollowsPlan(plan) ==
    LET retries == Tail(cli_attempts) IN
    /\ Len(retries) <= Len(plan)
    /\ \A i \in 1..Len(retries) : retries[i].model = plan[i]
    /\ \A i \in 1..(Len(cli_attempts) - 1) : ModelFailure(cli_attempts[i])
    /\ CliReturned =>
           \/ ~ModelFailure(cli_attempts[Len(cli_attempts)])
           \/ Len(retries) = Len(plan)

\* What the call returns: the text of the last attempt when it succeeded
\* with one, an error otherwise.
ReturnsTextOrError ==
    CliReturned =>
        LET last == cli_attempts[Len(cli_attempts)] IN
        IF cli_return[1].ok
        THEN /\ last.outcome.started /\ last.outcome.success
             /\ last.outcome.text = Some(cli_return[1].value)
        ELSE ~(last.outcome.started /\ last.outcome.success
               /\ last.outcome.text # None)

\* No more than 2 + the length of the fallback list attempts are made.
AttemptsBounded ==
    cli_call # None =>
        Len(cli_attempts) <= 2 + Len(model_fallbacks(cli_call[1].provider_id))

\* With a first attempt that did not fail over the model there is no retry.
NoRetryOtherwise ==
    (cli_attempts # <<>> /\ ~ModelFailure(cli_attempts[1])) =>
        CliReturned /\ Len(cli_attempts) = 1

\* A call that has been made returns.
CliTerminates == (cli_pc # "idle") ~> CliReturned

\* C32 as stated: after a first attempt that failed over the model, the
\* second attempt has no --model argument and the following ones have the
\* fallback models in list order without the requested one, up to the first
\* attempt that succeeds or fails otherwise; after any other first attempt
\* there is no retry; at most 2 + the number of fallback models attempts
\* are made, and the call returns a text or an error.
C32_RetryWithoutModel ==
    /\ [](/\ (cli_attempts # <<>> /\ ModelFailure(cli_attempts[1])) =>
                 FollowsPlan(<<None>> \o OtherFallbacks)
          /\ NoRetryOtherwise
          /\ AttemptsBounded
          /\ ReturnsTextOrError)
    /\ CliTerminates

\* C32 amended: the retry without a --model argument is made when the first
\* attempt passed one; when normalize_cli_model_arg gave none (no model, an
\* alias of the default, the name of the provider), the first attempt was
\* without --model already and the fallback models follow it directly.
C32_RetryAfterModelArgument ==
    /\ [](/\ (cli_attempts # <<>> /\ ModelFailure(cli_attempts[1])) =>
                 FollowsPlan((IF cli_attempts[1].model # None
                              THEN <<None>> ELSE <<>>) \o OtherFallbacks)
          /\ NoRetryOtherwise
          /\ AttemptsBounded
          /\ ReturnsTextOrError)
    /\ CliTerminates

\* A call with a model that is one of the fallbacks has returned a text
\* after the model, the default and the first fallback failed over the
\* model: four attempts, the requested model skipped.
C32_Witness ==
    /\ CliReturned
    /\ cli_return[1].ok
    /\ Len(cli_attempts) = 4
    /\ cli_attempts[1].model = Some("o3")
    /\ cli_attempts[2].model = None
    /\ cli_attempts[3].model = Some("gpt-5-codex")
    /\ cli_attempts[4].model = Some("o4-mini")

(* ---------------------------------------------------------------------- *)
(* list_records                                                            *)
(* ---------------------------------------------------------------------- *)

\* value_string: the string under the key, None when the key is missing or
\* holds no string.  A JSON object is a function from the keys that hold a
\* string to these strings.
value_string(value, key) ==
    IF key \in DOMAIN value THEN Some(value[key]) ELSE None

\* The folders of RECORD_TYPE_DIRS in the order of the array.
RecordDirOrder == <<"decisions", "worklogs", "ideas", "backlogs", "other">>

\* The record type that RECORD_TYPE_DIRS pairs with a folder.
FolderType(folder) ==
    CHOOSE record_type \in DOMAIN RecordTypeDirs :
        RecordTypeDirs[record_type] = folder

\* record_from_value with the defaults of the fields that a file may lack;
\* mtime is what file_mtime_iso gives for the file.  Of the Record the
\* fields of the type, the title, the creation time, the sync status and
\* the paths are kept.
RecordFromValue(value, json_path, mtime, fallback_type) ==
    [record_type |->
         IF value_string(value, "type") # None
         THEN normalize_record_type(value_string(value, "type")[1])
         ELSE IF fallback_type # None
         THEN normalize_record_type(fallback_type[1])
         ELSE "note",
     title |-> UnwrapOr(value_string(value, "title"), "Untitled"),
     created_at |-> UnwrapOr(value_string(value, "created_at"), mtime),
     notion_sync_status |->
         UnwrapOr(value_string(value, "notion_sync_status"), "SUCCESS"),
     json_path |-> Some(json_path),
     md_path |-> Some(with_extension(json_path, "md"))]

\* The byte of a character of a creation time.
Byte(c) ==
    CASE c = "-" -> 45 [] c = "0" -> 48 [] c = "1" -> 49 [] c = "2" -> 50
      [] c = "3" -> 51 [] c = "4" -> 52 [] OTHER -> 63

\* str::cmp(a, b) = Less
RECURSIVE StrLess(_, _)
StrLess(a, b) ==
    IF b = <<>> THEN FALSE
    ELSE IF a = <<>> THEN TRUE
    ELSE IF Byte(a[1]) # Byte(b[1]) THEN Byte(a[1]) < Byte(b[1])
    ELSE StrLess(Tail(a), Tail(b))

\* compare_iso_desc(a, b) = Less: a goes before b.
compare_iso_desc(a, b) == StrLess(b, a)

\* The place of one more record in a list that sort_by has ordered: behind
\* the records that do not compare Greater (the sort is stable).
RECURSIVE InsertSorted(_, _)
InsertSorted(sorted, record) ==
    IF sorted = <<>> THEN <<record>>
    ELSE IF compare_iso_desc(record.created_at, sorted[1].created_at)
    THEN <<record>> \o sorted
    ELSE <<sorted[1]>> \o InsertSorted(Tail(sorted), record)

\* records.sort_by(|a, b| compare_iso_desc(&a.created_at, &b.created_at))
RECURSIVE SortByCreatedAt(_, _, _)
SortByCreatedAt(records, i, sorted) ==
    IF i > Len(records) THEN sorted
    ELSE SortByCreatedAt(records, i + 1, InsertSorted(sorted, records[i]))

\* The loop of load_records over the entries of the record folders:
\* entries without the extension json and files that do not parse are
\* passed over.
RECURSIVE ScannedRecords(_, _, _)
ScannedRecords(d, entries, i) ==
    IF i > Len(entries) THEN <<>>
    ELSE IF entries[i][4] # "json" \/ d[entries[i]].parsed = None
    THEN ScannedRecords(d, entries, i + 1)
    ELSE <<RecordFromValue(d[entries[i]].parsed[1], entries[i],
                           d[entries[i]].mtime,
                           Some(FolderType(entries[i][2])))>>
         \o ScannedRecords(d, entries, i + 1)

\* The position of a folder in RECORD_TYPE_DIRS.
FolderIndex(folder) ==
    CHOOSE i \in DOMAIN RecordDirOrder : RecordDirOrder[i] = folder

\* The orders in which load_records may meet the files: folder by folder
\* as RECORD_TYPE_DIRS lists them, within a folder as read_dir yields them.
ScanOrders(d) ==
    {entries \in [1..Cardinality(DOMAIN d) -> DOMAIN d] :
        /\ \A i, j \in DOMAIN entries : i # j => entries[i] # entries[j]
        /\ \A i, j \in DOMAIN entries :
               i < j => FolderIndex(entries[i][2]) <= FolderIndex(entries[j][2])}

\* list_records; entries is the order in which the files are met.
ListRecords(entries) ==
    /\ store_result' =
           Some([op |-> "list_records", ok |-> TRUE, entries |-> entries,
                 records |-> SortByCreatedAt(
                                 ScannedRecords(store_files, entries, 1),
                                 1, <<>>)])
    /\ UNCHANGED <<facade_vars, debate_vars, store_files, index_db, records_fts,
                   index_meta, since_rebuild, settings_vars, cli_vars, step_vars,
                   creations>>

(* ---------------------------------------------------------------------- *)
(* Specification of list_records                                           *)
(* ---------------------------------------------------------------------- *)

\* Most files of the record folders.
MaxListed == 3

\* A file of a record folder: what it parses to, if it parses, and its
\* modification time.
RecordFile(parsed, mtime) == [parsed |-> parsed, mtime |-> mtime]

\* Creation times.
January  == <<"2", "0", "2", "4", "-", "0", "1">>

October  == <<"2", "0", "2", "4", "-", "1", "0">>

December == <<"2", "0", "2", "3", "-", "1", "2">>

\* Files as upsert_record, the sync commands, another tool or a hand have
\* left them: a complete record; an empty object; a record with the folder
\* key as type, an empty title and a status of its own; a type to be
\* normalised; a file that is no JSON; a markdown file; a record without
\* type and time whose modification time cannot be read; a record of an
\* unknown type.
ListedFiles ==
    [p \in {<<"records", "ideas", "a", "json">>,
            <<"records", "other", "b", "json">>,
            <<"records", "other", "c", "json">>,
            <<"records", "decisions", "d", "json">>,
            <<"records", "decisions", "e", "json">>,
            <<"records", "ideas", "a", "md">>,
            <<"records", "worklogs", "f", "json">>,
            <<"records", "ideas", "g", "json">>} |->
        CASE p[3] = "a" /\ p[4] = "json" ->
                 RecordFile(Some([type |-> "idea", title |-> "Plan",
                                  created_at |-> January,
                                  notion_sync_status |-> "PENDING"]), October)
          [] p[3] = "b" -> RecordFile(Some(<<>>), January)
          [] p[3] = "c" ->
                 RecordFile(Some([type |-> "other", title |-> "",
                                  created_at |-> October,
                                  notion_sync_status |-> "done"]), January)
          [] p[3] = "d" ->
                 RecordFile(Some([type |-> " Decision ", title |-> "Plan",
                                  created_at |-> December,
                                  notion_sync_status |-> "CONFLICT"]), January)
          [] p[3] = "e" -> RecordFile(None, January)
          [] p[3] = "a" /\ p[4] = "md" -> RecordFile(None, October)
          [] p[3] = "f" -> RecordFile(Some([title |-> "Plan"]), <<>>)
          [] p[3] = "g" ->
                 RecordFile(Some([type |-> "Essay", title |-> "Plan",
                                  created_at |-> SubSeq(January, 1, 4),
                                  notion_sync_status |-> "FAILED"]), October)]

InitList ==
    /\ InitFacade
    /\ IdleDebate
    /\ \E S \in SUBSET DOMAIN ListedFiles :
           /\ Cardinality(S) <= MaxListed
           /\ store_files = [p \in S |-> ListedFiles[p]]
    /\ index_db = FALSE
    /\ records_fts = <<>>
    /\ index_meta = None
    /\ store_result = None
    /\ since_rebuild = None
    /\ settings_file = None
    /\ settings_result = None
    /\ IdleCli
    /\ IdleSteps

NextList == \E entries \in ScanOrders(store_files) : ListRecords(entries)

SpecList == InitList /\ [][NextList]_vars

(* ---------------------------------------------------------------------- *)
(* Properties of list_records                                              *)
(* ---------------------------------------------------------------------- *)

\* The files that list_records has to return: *.json files that parse.
ParsedFiles ==
    {q \in DOMAIN store_files :
         q[4] = "json" /\ store_files[q].parsed # None}

Listed == store_result # None /\ store_result[1].op = "list_records"

\* The list is in descending order of created_at as strings.
SortedDescending(records) ==
    \A i, j \in DOMAIN records :
        i < j => ~StrLess(records[i].created_at, records[j].created_at)

\* C33: list_records returns, for every *.json file that parses, a record
\* whose type is one of decision, worklog, idea, backlog, note, whose title
\* is not empty and whose sync status is one of SUCCESS, PENDING, FAILED,
\* CONFLICT, and the list is sorted by created_at descending as strings.
C33_ListWellFormed ==
    Listed =>
        LET records == store_result[1].records IN
        /\ \A q \in ParsedFiles :
               \E i \in DOMAIN records :
                   /\ records[i].json_path = Some(q)
                   /\ records[i].record_type
                          \in {"decision", "worklog", "idea", "backlog", "note"}
                   /\ records[i].title # ""
                   /\ records[i].notion_sync_status
                          \in {"SUCCESS", "PENDING", "FAILED", "CONFLICT"}
        /\ SortedDescending(records)

\* What holds for every file: one record per *.json file that parses and
\* none for another file, the type one of the five, a file without type
\* taking the type of its folder, the title and the status those of the
\* file, Untitled and SUCCESS when it has none, and the list sorted.
C33_TypesDefaultsAndOrder ==
    Listed =>
        LET records == store_result[1].records IN
        /\ Len(records) = Cardinality(ParsedFiles)
        /\ \A q \in ParsedFiles :
               \E i \in DOMAIN records :
                   LET value == store_files[q].parsed[1] IN
                   /\ records[i].json_path = Some(q)
                   /\ records[i].record_type
                          \in {"decision", "worklog", "idea", "backlog", "note"}
                   /\ "type" \notin DOMAIN value =>
                          RecordTypeDirs[records[i].record_type] = q[2]
                   /\ records[i].title =
                          IF "title" \in DOMAIN value THEN value.title
                          ELSE "Untitled"
                   /\ records[i].notion_sync_status =
                          IF "notion_sync_status" \in DOMAIN value
                          THEN value.notion_sync_status ELSE "SUCCESS"
        /\ SortedDescending(records)

(* ---------------------------------------------------------------------- *)
(* Properties of the run id                                                *)
(* ---------------------------------------------------------------------- *)

\* The invocation was rejected because a debate was running.
Rejected(q) ==
    result[q] # None /\ result[q][1].code = "ALREADY_RUNNING"

\* The worker of the invocation has run a debate to its response.
RanDebate(p) == joined[p] # None /\ joined[p][1].ok

\* C34: the run id that a rejection names is the run id of the debate in
\* progress, the one its response reports and under which it writes
\* records/debates/{run_id}.
C34_RejectionNamesActiveRun ==
    \A p, q \in Invocations :
        (Rejected(q) /\ RanDebate(p)) =>
            result[q][1].run_id = joined[p][1].run_id

\* The rejection names the reading of the clock that the lock holds, which
\* is not later than the one the worker takes for its run id.
C34_NamesTheLockId ==
    \A p, q \in Invocations :
        (Rejected(q) /\ RanDebate(p)) =>
            result[q][1].run_id <= joined[p][1].run_id

(* ---------------------------------------------------------------------- *)
(* write_atomic under concurrent commands                                   *)
(* ---------------------------------------------------------------------- *)

\* Most commands that write at the same time.
MaxWriters == 2

\* The temporary file of write_atomic: the target with its extension
\* replaced.
TmpOf(path) == with_extension(path, "tmp")

\* The bytes that a writer sends to a target.
BytesFor(path, writer) == [to |-> path, by |-> writer]

\* persist_record_to_files: the structured file, then the rendered file.
PersistWrites(stem) ==
    <<<<"records", "ideas", stem, "json">>, <<"records", "ideas", stem, "md">>>>

\* The debate engine: final-packet.json, then final-packet.md.
PacketWrites ==
    <<<<"debates", "run", "final-packet", "json">>,
      <<"debates", "run", "final-packet", "md">>>>

WriteJobs == {PersistWrites("a"), PersistWrites("b"), PacketWrites}

\* The targets that commands write.
WriteTargets == UNION {{job[i] : i \in 1..Len(job)} : job \in WriteJobs}

\* A command that will make the write_atomic calls of targets starts.
BeginWrites(targets) ==
    /\ Len(writers) < MaxWriters
    /\ writers' = Append(writers, [targets |-> targets, at |-> "write"])
    /\ UNCHANGED <<facade_vars, debate_vars, store_files, index_db, records_fts,
                   index_meta, store_result, since_rebuild, settings_vars,
                   cli_vars, rebuild_scan, pending, creations>>

\* write_atomic, first half: fs::write of the bytes to the temporary file.
WriteTmp(w) ==
    /\ w \in 1..Len(writers)
    /\ writers[w].at = "write"
    /\ store_files' = WriteFile(store_files, TmpOf(Head(writers[w].targets)),
                                BytesFor(Head(writers[w].targets), w))
    /\ writers' = [writers EXCEPT ![w].at = "rename"]
    /\ UNCHANGED <<facade_vars, debate_vars, index_db, records_fts, index_meta,
                   store_result, since_rebuild, settings_vars, cli_vars,
                   rebuild_scan, pending, creations>>

\* write_atomic, second half: fs::rename of the temporary file to the target.
\* It fails when the temporary file is gone, and the command returns the
\* error.
RenameTmp(w) ==
    /\ w \in 1..Len(writers)
    /\ writers[w].at = "rename"
    /\ IF TmpOf(Head(writers[w].targets)) \in DOMAIN store_files
       THEN /\ store_files' =
                   RemoveFile(WriteFile(store_files, Head(writers[w].targets),
                                        store_files[TmpOf(Head(writers[w].targets))]),
                              TmpOf(Head(writers[w].targets)))
            /\ writers' =
                   [writers EXCEPT
                      ![w] = [targets |-> Tail(writers[w].targets),
                              at |-> IF Len(writers[w].targets) = 1
                                     THEN "done" ELSE "write"]]
       ELSE /\ writers' = [writers EXCEPT ![w].at = "failed"]
            /\ UNCHANGED store_files
    /\ UNCHANGED <<facade_vars, debate_vars, index_db, records_fts, index_meta,
                   store_result, since_rebuild, settings_vars, cli_vars,
                   rebuild_scan, pending, creations>>

InitAtomic == InitFacade /\ IdleRun

NextAtomic ==
    \/ \E targets \in WriteJobs : BeginWrites(targets)
    \/ \E w \in 1..MaxWriters : WriteTmp(w)
    \/ \E w \in 1..MaxWriters : RenameTmp(w)

SpecAtomic == InitAtomic /\ [][NextAtomic]_vars

\* The files that are targets, not temporary files.
TargetFiles == {path \in DOMAIN store_files : path[4] # "tmp"}

\* Every command that started has made its writes or returned an error.
WritersFinished ==
    /\ writers # <<>>
    /\ \A w \in 1..Len(writers) : writers[w].at \in {"done", "failed"}

\* Two different targets never share a temporary file.
NoSharedTmp == \A p, q \in WriteTargets : p # q => TmpOf(p) # TmpOf(q)

\* C35: under every interleaving of concurrent writers, whose different
\* targets are said never to share a temporary file, each target ends up
\* holding the complete bytes of a write that was addressed to that target.
C35_TargetsHoldTheirOwnBytes ==
    WritersFinished =>
        \A path \in TargetFiles : store_files[path].to = path

\* What the code gives: a target holds the bytes of a write to a target with
\* the same temporary file, that is the same path up to the extension.
C35_BytesOfTheSameStem ==
    \A path \in TargetFiles : TmpOf(store_files[path].to) = TmpOf(path)

\* What holds for one command alone: its targets hold their own bytes.
C35_OneWriterAlone ==
    Len(writers) = 1 =>
        \A path \in TargetFiles : store_files[path].to = path

(* ---------------------------------------------------------------------- *)
(* rebuild_search_index at the same time as upsert_record, delete_record    *)
(* ---------------------------------------------------------------------- *)

\* The value that upsert_record persists for a payload without a previous
\* path.
NewRecordValue(record_type, title) ==
    [type |-> record_type, title |-> title, notion_page_id |-> None,
     final_body |-> "", notion_sync_status |-> "SUCCESS",
     notion_error |-> None, notion_last_edited_time |-> None,
     notion_last_synced_hash |-> None]

\* The path of the structured file of a payload without a previous path.
NewJsonPath(record_type, title) ==
    <<"records", TargetDir(record_type), generate_filename(record_type, title),
      "json">>

\* The Record that upsert_record builds for a payload without a previous
\* path.
NewRecord(record_type, title) ==
    record_from_value(NewRecordValue(record_type, title),
                      Some(NewJsonPath(record_type, title)),
                      Some(with_extension(NewJsonPath(record_type, title),
                                          "md")))

\* rebuild_search_index, first half: load_records reads the record files.
RebuildScan ==
    /\ rebuild_scan = None
    /\ rebuild_scan' = Some(load_records(store_files))
    /\ UNCHANGED <<facade_vars, debate_vars, store_files, index_db, records_fts,
                   index_meta, store_result, since_rebuild, settings_vars,
                   cli_vars, writers, pending, creations>>

\* rebuild_search_index, second half: rebuild_index wipes and refills the
\* table from the records read, in one transaction.
RebuildCommit ==
    /\ rebuild_scan # None
    /\ index_db' = rebuild_index(index_db, records_fts, index_meta,
                                 rebuild_scan[1], None).db
    /\ records_fts' = rebuild_index(index_db, records_fts, index_meta,
                                    rebuild_scan[1], None).rows
    /\ index_meta' = rebuild_index(index_db, records_fts, index_meta,
                                   rebuild_scan[1], None).meta
    /\ store_result' =
           Some([op |-> "rebuild_index", ok |-> TRUE,
                 count |-> Len(rebuild_scan[1]), given |-> Len(rebuild_scan[1])])
    /\ since_rebuild' = Some(TRUE)
    /\ rebuild_scan' = None
    /\ UNCHANGED <<facade_vars, debate_vars, store_files, settings_vars,
                   cli_vars, writers, pending, creations>>

\* upsert_record without a previous path, first half: the two files are
\* written.
UpsertFiles(payload_type, payload_title) ==
    /\ pending = None
    /\ store_files' =
           persist_record_to_files(
               store_files,
               NewRecord(normalize_record_type(payload_type),
                         IF Trim(payload_title) = "" THEN "Untitled"
                         ELSE Trim(payload_title)),
               NewJsonPath(normalize_record_type(payload_type),
                           IF Trim(payload_title) = "" THEN "Untitled"
                           ELSE Trim(payload_title)),
               with_extension(
                   NewJsonPath(normalize_record_type(payload_type),
                               IF Trim(payload_title) = "" THEN "Untitled"
                               ELSE Trim(payload_title)),
                   "md"))
    /\ pending' =
           Some([op |-> "upsert_record",
                 record |-> NewRecord(normalize_record_type(payload_type),
                                      IF Trim(payload_title) = ""
                                      THEN "Untitled"
                                      ELSE Trim(payload_title)),
                 payload_type |-> payload_type])
    /\ UNCHANGED <<facade_vars, debate_vars, index_db, records_fts, index_meta,
                   store_result, since_rebuild, settings_vars, cli_vars,
                   writers, rebuild_scan, creations>>

\* upsert_record, second half: upsert_index_record_if_exists, and the
\* return.
UpsertIndex ==
    /\ pending # None
    /\ pending[1].op = "upsert_record"
    /\ records_fts' = upsert_index_record_if_exists(index_db, records_fts,
                                                    pending[1].record)
    /\ store_result' =
           Some([op |-> "upsert_record", ok |-> TRUE,
                 record |-> Some(pending[1].record),
                 payload_type |-> pending[1].payload_type,
                 previous_json_path |-> None, prior_existed |-> FALSE,
                 fault |-> "none"])
    /\ pending' = None
    /\ UNCHANGED <<facade_vars, debate_vars, store_files, index_db, index_meta,
                   since_rebuild, settings_vars, cli_vars, writers,
                   rebuild_scan, creations>>

\* delete_record, first half: the two files are removed.
DeleteFiles(json_path) ==
    /\ pending = None
    /\ store_files' = RemoveFile(RemoveFile(store_files, json_path),
                                 with_extension(json_path, "md"))
    /\ pending' = Some([op |-> "delete_record", json_path |-> json_path])
    /\ UNCHANGED <<facade_vars, debate_vars, index_db, records_fts, index_meta,
                   store_result, since_rebuild, settings_vars, cli_vars,
                   writers, rebuild_scan, creations>>

\* delete_record, second half: delete_index_record_if_exists, and the
\* return.
DeleteIndex ==
    /\ pending # None
    /\ pending[1].op = "delete_record"
    /\ records_fts' = delete_index_record_if_exists(index_db, records_fts,
                                                    pending[1].json_path)
    /\ store_result' =
           Some([op |-> "delete_record", ok |-> TRUE,
                 json_path |-> pending[1].json_path, fault |-> "none"])
    /\ pending' = None
    /\ UNCHANGED <<facade_vars, debate_vars, store_files, index_db, index_meta,
                   since_rebuild, settings_vars, cli_vars, writers,
                   rebuild_scan, creations>>

InitRace == InitFacade /\ IdleRun

NextRace ==
    \/ RebuildScan
    \/ RebuildCommit
    \/ \E payload_type \in RecordTypeInputs, payload_title \in TitleInputs :
           UpsertFiles(payload_type, payload_title)
    \/ UpsertIndex
    \/ \E json_path \in JsonPathInputs : DeleteFiles(json_path)
    \/ DeleteIndex

SpecRace == InitRace /\ [][NextRace]_vars

\* The paths of the index rows.
IndexedPaths(rows) == {row.json_path : row \in BagToSet(rows)}

\* The index has one row per record file and no other row.
IndexEqualsFiles ==
    /\ IndexedPaths(records_fts) = JsonFiles(store_files)
    /\ BagCardinality(records_fts) = Cardinality(JsonFiles(store_files))

\* C36: once a rebuild_search_index and an upsert_record or delete_record
\* that ran at the same time have both finished, the rows of the index are
\* the record files on disk, under every interleaving.
C36_IndexEqualsFilesAfterBoth ==
    (index_db /\ rebuild_scan = None /\ pending = None) => IndexEqualsFiles

\* What the code gives: the rows that a rebuild leaves are the records that
\* its scan read.
C36_IndexEqualsTheScan ==
    [][(rebuild_scan # None /\ rebuild_scan' = None) =>
           IndexedPaths(records_fts') =
               {UnwrapOr(rebuild_scan[1][i].json_path, EmptyPath) :
                    i \in 1..Len(rebuild_scan[1])}]_vars

\* What holds without the overlap: a rebuild whose scan is still what the
\* files hold, with no other command in progress, leaves the index equal to
\* the files.
C36_IndexEqualsFilesWithoutOverlap ==
    [][(/\ rebuild_scan # None
        /\ rebuild_scan' = None
        /\ pending = None
        /\ rebuild_scan[1] = load_records(store_files)) =>
           (IndexedPaths(records_fts') = JsonFiles(store_files'))]_vars

(* ---------------------------------------------------------------------- *)
(* upsert_record without a previous path                                    *)
(* ---------------------------------------------------------------------- *)

\* The title that upsert_record files a payload under.
PayloadTitle(payload_title) ==
    IF Trim(payload_title) = "" THEN "Untitled" ELSE Trim(payload_title)

\* The files after the writes of upsert_record for a payload without a
\* previous path: fault names the write that fails, "none" when both
\* succeed.
NewRecordFiles(d, record_type, title, fault) ==
    IF fault = "write_json" THEN d
    ELSE IF fault = "write_md"
    THEN WriteFile(d, NewJsonPath(record_type, title),
                   NewRecordValue(record_type, title))
    ELSE persist_record_to_files(
             d, NewRecord(record_type, title), NewJsonPath(record_type, title),
             with_extension(NewJsonPath(record_type, title), "md"))

\* upsert_record with previous_json_path = None, as one step.
UpsertNewRecord(payload_type, payload_title, fault) ==
    /\ creations < MaxCreated
    /\ store_files' =
           NewRecordFiles(store_files, normalize_record_type(payload_type),
                          PayloadTitle(payload_title), fault)
    /\ records_fts' =
           IF fault = "none"
           THEN upsert_index_record_if_exists(
                    index_db, records_fts,
                    NewRecord(normalize_record_type(payload_type),
                              PayloadTitle(payload_title)))
           ELSE records_fts
    /\ store_result' =
           Some([op |-> "upsert_record", ok |-> fault = "none",
                 record |-> IF fault = "none"
                            THEN Some(NewRecord(
                                          normalize_record_type(payload_type),
                                          PayloadTitle(payload_title)))
                            ELSE None,
                 payload_type |-> payload_type,
                 previous_json_path |-> None, prior_existed |-> FALSE,
                 fault |-> fault])
    /\ creations' = IF fault = "none" THEN creations + 1 ELSE creations
    /\ UNCHANGED <<facade_vars, debate_vars, index_db, index_meta,
                   since_rebuild, settings_vars, cli_vars, step_vars>>

WriteFaults == {"none", "write_json", "write_md"}

InitCreate == InitFacade /\ IdleRun

NextCreate ==
    \/ Tick
    \/ \E payload_type \in RecordTypeInputs, payload_title \in TitleInputs,
          fault \in WriteFaults :
           UpsertNewRecord(payload_type, payload_title, fault)

SpecCreate == InitCreate /\ [][NextCreate]_vars

\* The records on disk that have both of their files.
FilePairs(d) == {q \in JsonFiles(d) : with_extension(q, "md") \in DOMAIN d}

\* The call that has just returned was a successful upsert_record without a
\* previous path.
Created ==
    /\ creations' = creations + 1
    /\ store_result'[1].op = "upsert_record"

\* C40: upsert_record without a previous path never overwrites the files of
\* an existing record, and after any sequence of such calls the number of
\* record file pairs is the number of calls that succeeded, two calls with
\* the same type and title within one second of the clock included.
C40_OnePairPerSuccessfulCall == Cardinality(FilePairs(store_files)) = creations

\* The same as a step: a successful call leaves every record that was there
\* as it was and adds one.
C40_NeverOverwrites ==
    [][Created =>
          /\ \A q \in FilePairs(store_files) :
                 /\ q \in FilePairs(store_files')
                 /\ store_files'[q] = store_files[q]
          /\ Cardinality(FilePairs(store_files')) =
                 Cardinality(FilePairs(store_files)) + 1]_vars

\* What the code gives: a successful call whose generated name is not taken
\* adds one record, and there are never more records than successful calls.
C40_OnePairPerFreshName ==
    /\ Cardinality(FilePairs(store_files)) <= creations
    /\ creations > 0 => FilePairs(store_files) # {}

C40_FreshNameAddsOne ==
    [][(Created /\ store_result'[1].record[1].json_path[1]
                       \notin DOMAIN store_files) =>
          Cardinality(FilePairs(store_files')) =
              Cardinality(FilePairs(store_files)) + 1]_vars

(* ---------------------------------------------------------------------- *)
(* Claims about a rejected debate request                                   *)
(* ---------------------------------------------------------------------- *)

\* The run has returned DEBATE_ERR_INPUT.
InputRejected ==
    /\ run_result # None
    /\ ~run_result[1].ok
    /\ run_result[1].code = "DEBATE_ERR_INPUT"

\* The problem is empty or the output type, whatever its case, is none of
\* the five.
BadInput ==
    \/ Trim(request.problem) = ""
    \/ ToLowercase(Trim(request.output_type)) \notin
           {"decision", "writing", "architecture", "planning", "evaluation"}

\* C39: a request is rejected with DEBATE_ERR_INPUT exactly when its problem
\* is empty or its output_type, compared without regard to case, is none of
\* the five; then no run directory or artifact exists, no writeback record
\* is written, no catalog row is inserted, and the state machine is never
\* entered.
C39_InputRejectionHasNoEffects ==
    /\ run_result # None => (InputRejected <=> BadInput)
    /\ InputRejected =>
          /\ ~run_root
          /\ \A name \in ArtifactNames : files[name] = None
          /\ record_files = {}
          /\ writeback_json_path = None
          /\ catalog = None
          /\ state = None
          /\ round = 0
          /\ turns = <<>>
          /\ final_packet = None

\* A request with an unknown output type has been rejected.
C39_Witness ==
    /\ InputRejected
    /\ request.output_type = "Essay"
    /\ rpc = "returned"

\* A request with a blank problem has been rejected.
C39_BlankProblemRejected ==
    /\ InputRejected
    /\ request.problem = "  "

(* ---------------------------------------------------------------------- *)
(* Claims about a sync that follows a sync                                  *)
(* ---------------------------------------------------------------------- *)

\* The actions of the results of a step that has marked its record synced.
MarkingActions ==
    {"pushed_local", "pushed_local_conflict_local_wins",
     "pushed_local_local_only_change", "pulled_notion",
     "pulled_notion_conflict_notion_wins", "pulled_notion_local_only_change",
     "noop", "created_local_from_notion"}

PushActions ==
    {"pushed_local", "pushed_local_conflict_local_wins",
     "pushed_local_local_only_change"}

\* The results of the command that has returned in which a record was
\* marked synced.
MarkedResults ==
    IF store_result = None THEN {}
    ELSE {store_result[1].results[i] : i \in
             {k \in 1..Len(store_result[1].results) :
                 /\ store_result[1].results[k].action \in MarkingActions
                 /\ store_result[1].results[k].notion_sync_status = "SUCCESS"
                 /\ store_result[1].results[k].json_path \in
                        JsonFiles(store_files)}}

\* The page of a marked record as Notion holds it when the command has
\* returned and nobody has edited it since: what the command wrote, stamped
\* with the time that Notion answered, after a push; the page that the
\* command read otherwise.
UneditedPage(item, record, env) ==
    IF item.action \in PushActions
    THEN RemoteRecord(record.notion_page_id[1], record.record_type,
                      record.final_body, Some(env.pushed_at))
    ELSE IF record.notion_page_id[1] \in DOMAIN env.remote
    THEN env.remote[record.notion_page_id[1]]
    ELSE RemoteRecord(record.notion_page_id[1], "idea", "remote text",
                      Some("e2"))

\* Notion with that page, reachable, and a file system that can be written.
UneditedEnvironment(page) ==
    Environment([p \in {page.page_id} |-> page], {}, {}, {}, {}, "e4")

\* The sync_record_bidirectional that follows on the record of item.
FollowingSync(item, conflict_strategy, env) ==
    sync_record_bidirectional_internal(
        StoreState, index_db, item.json_path, conflict_strategy,
        UneditedEnvironment(
            UneditedPage(item,
                         load_record_by_json_path(store_files, item.json_path),
                         env)))

\* The record of item, reloaded, is unchanged on both watermarks.
WatermarksUnchanged(item, env) ==
    /\ ~local_has_changed_since_sync(
            load_record_by_json_path(store_files, item.json_path))
    /\ ~remote_has_changed(
            load_record_by_json_path(store_files, item.json_path),
            UneditedPage(item,
                         load_record_by_json_path(store_files, item.json_path),
                         env))

\* A sync that found nothing to do: action noop, no request, the files as
\* they were.
NothingToDo(ret, json_path) ==
    /\ ret.ok
    /\ ret.result[1].action = "noop"
    /\ ret.result[1].json_path = json_path
    /\ ret.requests = <<>>
    /\ ret.files = store_files

\* C37: right after a sync step that has marked a record synced (a push, an
\* applied page, a noop), with no edit of the record or of its page since,
\* the reloaded record is unchanged on both watermarks, and a bidirectional
\* sync of it under any policy takes the noop branch, sends no PATCH and no
\* POST, and leaves the record's content as it was.
C37_SyncReachesFixedPoint ==
    \A item \in MarkedResults :
        /\ WatermarksUnchanged(item, store_result[1].env)
        /\ \A conflict_strategy \in {"manual", "local_wins", "notion_wins"} :
               NothingToDo(FollowingSync(item, conflict_strategy,
                                         store_result[1].env),
                           item.json_path)

\* A record that had been edited locally has been pushed, and the page of
\* another has been applied.
C37_Witness ==
    /\ \E item \in MarkedResults : item.action = "pushed_local"
    /\ \E item \in MarkedResults : item.action = "pulled_notion"

(* ---------------------------------------------------------------------- *)
(* Claims about a pull that follows a pull                                  *)
(* ---------------------------------------------------------------------- *)

\* A pull_records_from_notion has returned Ok.
Pulled ==
    /\ store_result # None
    /\ store_result[1].op = "pull_records_from_notion"
    /\ store_result[1].ok

\* The page of the i-th result of the pull as the next query of the
\* database returns it, nobody having edited it: the page that the pull
\* has written to, or the page as it was listed.
SamePage(i) ==
    IF store_result[1].results[i].action \in PushActions
    THEN Page(UneditedPage(
                  store_result[1].results[i],
                  load_record_by_json_path(store_files,
                                           store_result[1].results[i].json_path),
                  store_result[1].env),
              TRUE)
    ELSE store_result[1].given[i]

SamePages == [i \in 1..Len(store_result[1].given) |-> SamePage(i)]

\* The pull that follows, of the same pages under the given policy, Notion
\* and the file system answering as they did.
SecondPull(conflict_strategy) ==
    PullEach(EmptyBatch, index_db, load_records(store_files), SamePages, 1,
             conflict_strategy, store_result[1].env)

\* The results of the pull in which a record was created.
CreatedResults ==
    {i \in 1..Len(store_result[1].results) :
        store_result[1].results[i].action = "created_local_from_notion"}

\* The second pull creates no record: every page that the first pull
\* created a record for is found by its page id and gives noop on that
\* record, and the record files are those that were there.
NothingCreated(second) ==
    /\ second.ok
    /\ Len(second.results) = Len(store_result[1].results)
    /\ \A i \in CreatedResults :
           /\ second.results[i].action = "noop"
           /\ second.results[i].json_path = store_result[1].results[i].json_path
           /\ second.results[i].notion_page_id =
                  store_result[1].results[i].notion_page_id
    /\ \A i \in 1..Len(second.results) :
           second.results[i].action # "created_local_from_notion"
    /\ JsonFiles(second.files) = JsonFiles(store_files)
    /\ Cardinality(DOMAIN second.files) = Cardinality(DOMAIN store_files)

\* C38: a batch pull run a second time against an unchanged remote database
\* creates no local record: every page that the first run created a record
\* for is matched by its page id and yields noop, and the number of record
\* files is what it was after the first run.
C38_SecondPullCreatesNothing ==
    Pulled => NothingCreated(SecondPull(store_result[1].conflict_strategy))

\* The same under each policy, the second pull meeting no failure of Notion
\* or of the file system.
C38_UnderAnyPolicy ==
    (Pulled /\ store_result[1].env.rejects = {}
            /\ store_result[1].env.unwritable = {}) =>
        \A conflict_strategy \in {"manual", "local_wins", "notion_wins"} :
            NothingCreated(SecondPull(conflict_strategy))

\* A pull has created two records.
C38_Witness ==
    /\ Pulled
    /\ Cardinality(CreatedResults) = 2

====
